---- MODULE Spec2Model ----
(***************************************************************************)
(* State-machine model of the AiOs kernel: the capability-sandboxed VM     *)
(* (aiox/kernel/runtime.py), the tool registry it dispatches to            *)
(* (aiox/kernel/tools.py, tools/*/impl.py) and undo (aiox/kernel/undo.py). *)
(* Further specifications over the same variables: SpecRuns (successive    *)
(* runs, make_aiox and replay_aiox), SpecGate (LLMPlanner, ReplayGate and  *)
(* ModelCallCache), SpecPair (one program run dry and for real),           *)
(* SpecCompile (compile_plan_file), SpecShared (two VM instances on one    *)
(* sandbox), SpecLogged (run, pack, replay and undo on one log), SpecSplit *)
(* (SPLIT) and SpecLive (one run to its end, under fairness).              *)
(*                                                                         *)
(* Strings are sequences of one-character strings, so that str.startswith  *)
(* and path parsing are computed as the code computes them.                *)
(***************************************************************************)
EXTENDS Integers, Sequences, FiniteSets, TLC

VARIABLES
    files,      \* filesystem: resolved path (sequence of components) -> file content
    dirs,       \* filesystem: set of resolved paths that are directories
    policyFile, \* <sandbox>/policy.json: "absent" or the stored record {grants, limits}
    txlog,      \* <sandbox>/logs/tx.jsonl: sequence of records, one per line
    vm,         \* the VM instance (fields of VM, CapPolicy, Quotas, PolicyStore.data)
    now,        \* int(time.time()*1000) as last observed
    ev,         \* history: syscall-level events of the current VM, in order
    snap,       \* history: files and dirs as they were when the current VM was built
    req,        \* history: the last CapPolicy.require call
    chg,        \* history: the last Quotas.charge call
    undo,       \* history: outcome of the last undo_last_run call
    runs,       \* history: number of VMs built by the run and replay commands
    pkg,        \* the package file written by make_aiox (sandbox/packages/app.aiox)
    rep,        \* the replay_aiox call: its position and its return value
    earlier,    \* history: the run whose outputs were last removed from out/
    gate,       \* the ReplayGate of the LLMPlanner (replay_mode, expected_calls, actual_calls)
    cache,      \* ModelCallCache: the cache files and logs/model_calls.jsonl
    sidelog,    \* <sandbox>/logs/last_run_model_calls.json
    plan,       \* history: the last LLMPlanner.plan_workflow call
    pair,       \* a dry run and a real run of one program from one sandbox state
    comp,       \* a plan, the compilation mode, and what compile_plan_file made of it
    past,       \* history: the (app_id, capability) pairs granted in VMs that have ended
    look,       \* the last store, get, clear or check call, if nothing came after it, and its result
    modes,      \* one plan lowered in both modes and run from the same sandbox state
    real,       \* history: the last non-dry run, the sandbox before it and after it
    peer,       \* a second VM instance on the same sandbox, and which instances have overlapped
    split       \* the last SPLIT: its table, ratio and seed, and the two tables it returned

gateVars == <<gate, cache, sidelog, plan>>

pureVars == <<pair, comp>>

moreVars == <<past, look, modes, real, peer, split>>

sessVars == <<runs, pkg, rep, earlier, gateVars, pureVars, moreVars>>

vars == <<files, dirs, policyFile, txlog, vm, now, ev, snap, req, chg, undo, sessVars>>

-----------------------------------------------------------------------------
(* Bounds of the model *)

MaxProg == 2        \* longest bytecode program
MaxUndo == 2        \* undo_last_run calls per behaviour

-----------------------------------------------------------------------------
(* Strings and paths *)

Slash == "/"
DotDot == <<".", ".">>

RECURSIVE StartsWith(_, _)
\* str.startswith(prefix)
StartsWith(s, prefix) ==
    IF prefix = <<>> THEN TRUE
    ELSE IF s = <<>> THEN FALSE
    ELSE Head(s) = Head(prefix) /\ StartsWith(Tail(s), Tail(prefix))

RECURSIVE SplitAcc(_, _, _)
SplitAcc(s, cur, acc) ==
    IF s = <<>> THEN (IF cur = <<>> THEN acc ELSE Append(acc, cur))
    ELSE IF Head(s) = Slash
         THEN SplitAcc(Tail(s), <<>>, IF cur = <<>> THEN acc ELSE Append(acc, cur))
         ELSE SplitAcc(Tail(s), Append(cur, Head(s)), acc)

\* Path(path).parts of a relative path string: its components, empty ones dropped
PathParts(s) == SplitAcc(s, <<>>, <<>>)

RECURSIVE Normalize(_, _)
\* Path.resolve() on a path without symlinks: ".." steps to the parent
Normalize(parts, acc) ==
    IF parts = <<>> THEN acc
    ELSE IF Head(parts) = DotDot
         THEN Normalize(Tail(parts), IF acc = <<>> THEN acc ELSE SubSeq(acc, 1, Len(acc) - 1))
         ELSE Normalize(Tail(parts), Append(acc, Head(parts)))

\* the process working directory (the project root that holds sandbox/)
Cwd == << <<"w">> >>

\* Path(path).resolve() of a relative path string
Resolve(path) == Normalize(PathParts(path), Cwd)

RECURSIVE PathStr(_)
\* str(p) of an absolute path
PathStr(p) == IF p = <<>> THEN <<>> ELSE <<Slash>> \o Head(p) \o PathStr(Tail(p))

RECURSIVE JoinParts(_)
JoinParts(parts) ==
    IF parts = <<>> THEN <<>>
    ELSE IF Len(parts) = 1 THEN Head(parts)
    ELSE Head(parts) \o <<Slash>> \o JoinParts(Tail(parts))

\* str(Path(a) / b)
PathJoin(a, b) == JoinParts(PathParts(a) \o PathParts(b))

Parent(p) == SubSeq(p, 1, Len(p) - 1)

\* p is q or lies below q in the directory tree
IsUnder(p, q) == Len(p) >= Len(q) /\ SubSeq(p, 1, Len(q)) = q
ProperlyUnder(p, q) == Len(p) > Len(q) /\ SubSeq(p, 1, Len(q)) = q

\* ensure_under(root, p): the resolved path, or a PermissionError
EnsureUnderOk(root, path) == StartsWith(PathStr(Resolve(path)), PathStr(Resolve(root)))

-----------------------------------------------------------------------------
(* Sandbox layout and the path operands programs carry *)

JP(parts) == JoinParts(parts)

SbxArg      == <<"s">>                                \* sandbox_root, as passed to VM
InCsv       == JP(<< <<"s">>, <<"d">> >>)             \* sandbox/in/data.csv
SampleJson  == JP(<< <<"s">>, <<"j">> >>)             \* sandbox/in/sample.json
OutDir      == JP(<< <<"s">>, <<"o">> >>)             \* sandbox/out
ReportPath  == JP(<< <<"s">>, <<"o">>, <<"r">> >>)    \* sandbox/out/report.md
AppDir      == JP(<< <<"s">>, <<"o">>, <<"a">> >>)    \* sandbox/out/app
ZipPath     == JP(<< <<"s">>, <<"o">>, <<"z">> >>)    \* sandbox/out/app.zip
EscapePath  == JP(<< <<"s">>, DotDot, <<"e">> >>)     \* sandbox/../etc
SiblingPath == JP(<< <<"s", "x">>, <<"f">> >>)        \* sandbox_x/f (same string prefix)
TxLogPath   == JP(<< <<"s">>, <<"l">>, <<"t">> >>)    \* sandbox/logs/tx.jsonl

ModelName     == <<"m">>     \* "model.npz"
SchemaName    == <<"h">>     \* "schema.json"
PredictName   == <<"p">>     \* "predict.py"
ChecksumsName == <<"c">>     \* "checksums.json"

Sbx == Resolve(SbxArg)
OutP == Resolve(OutDir)
LogP == Resolve(TxLogPath)

-----------------------------------------------------------------------------
(* Values: file contents, slot values, log records, events *)

EmptyFn == [x \in {} |-> 0]

\* a file content: its kind t, its payload v, its length in bytes n
Content(t, v, n) == [t |-> t, v |-> v, n |-> n]
Bytes(c) == c.n

\* sha256_file(p): the digest of the file's bytes
Sha256(c) == <<"sha256", c.t, c.v>>
NoHash == <<>>

\* a slot value (a Python dict): kind, numeric fields num, other keys keys, payload x
Value(k, num, keys, x) == [k |-> k, num |-> num, keys |-> keys, x |-> x]

Caps == {"fs.read", "fs.write", "proc.spawn"}
Metrics == {"io_bytes", "files_written", "cpu_ms", "model_calls"}

Event(k, a, p) == [k |-> k, a |-> a, p |-> p]

NoErr == [cls |-> "none", why |-> "none"]

-----------------------------------------------------------------------------
(* The machine record m threaded through one handler:                      *)
(*   files, dirs, pfile (policy.json), log (tx.jsonl), vm, ev, req, chg,   *)
(*   ret (the return value of the last primitive).                         *)
(* A raised exception is vm.err; every primitive after it is skipped, as   *)
(* the exception unwinds run().                                            *)

Failed(m) == m.vm.err.cls # "none"

\* history only: record an event, unless an exception is already unwinding
Emit(m, k, a, p) == IF Failed(m) THEN m ELSE [m EXCEPT !.ev = Append(@, Event(k, a, p))]

Raise(m, cls, why) ==
    IF Failed(m) THEN m
    ELSE [Emit(m, "raise", why, <<>>) EXCEPT !.vm.err = [cls |-> cls, why |-> why]]

(* ---- PolicyStore ---- *)

NoPolicy == [exists |-> FALSE, grants |-> {}, limits |-> EmptyFn]

\* a PolicyStore that starts from the empty default whatever policy.json holds
PolicyLoadFresh(pfile) == [grants |-> {}, limits |-> EmptyFn]

\* PolicyStore.__init__: the data loaded from policy.json, or the empty default
PolicyLoad(pfile) ==
    IF pfile.exists THEN [grants |-> pfile.grants, limits |-> pfile.limits]
    ELSE [grants |-> {}, limits |-> EmptyFn]

\* PolicyStore.save: policy.json is rewritten whole from this instance's data
PolicySave(m) ==
    [m EXCEPT !.pfile = [exists |-> TRUE, grants |-> m.vm.data.grants,
                         limits |-> m.vm.data.limits]]

\* is_granted that looks for the capability under any app_id
IsGrantedToAny(data, app_id, cap) == \E g \in data.grants : g[2] = cap

\* PolicyStore.is_granted
IsGranted(data, app_id, cap) == <<app_id, cap>> \in data.grants

\* PolicyStore.grant without the save()
PolicyGrantUnsaved(m, cap) ==
    [m EXCEPT !.vm.data.grants = @ \cup {<<m.vm.app_id, cap>>}]

\* PolicyStore.grant
PolicyGrant(m, cap) ==
    PolicySave([m EXCEPT !.vm.data.grants = @ \cup {<<m.vm.app_id, cap>>}])

(* ---- Quotas ---- *)

DefaultIoBytes == 52428800
DefaultFilesWritten == 100
DefaultCpuMs == 30000
DefaultModelCalls == 10

\* Quotas.DEFAULTS
QuotaDefaults ==
    [x \in Metrics |->
        CASE x = "io_bytes" -> DefaultIoBytes
          [] x = "files_written" -> DefaultFilesWritten
          [] x = "cpu_ms" -> DefaultCpuMs
          [] OTHER -> DefaultModelCalls]

\* Quotas.get_limits: the store's limits, or the defaults when it has none
GetLimits(data) == IF DOMAIN data.limits = {} THEN QuotaDefaults ELSE data.limits

\* the limit charge() compares against
EffectiveLimit(data, metric) ==
    LET lim == GetLimits(data)
    IN IF metric \in DOMAIN lim THEN lim[metric] ELSE QuotaDefaults[metric]

\* Quotas.__init__: zero usage; the defaults are stored when the store has no limits
QuotasInit(m) ==
    LET m1 == [m EXCEPT !.vm.usage = [x \in Metrics |-> 0]]
    IN IF DOMAIN m1.vm.data.limits = {}
       THEN PolicySave([m1 EXCEPT !.vm.data.limits = QuotaDefaults])
       ELSE m1

\* OverLimit with >= for >
OverLimitInclusive(total, limit) == total >= limit

\* the test charge() makes after adding
OverLimit(total, limit) == total > limit

\* Quotas.charge
Charge(m, metric, amount) ==
    IF Failed(m) THEN m
    ELSE LET total == m.vm.usage[metric] + amount
             limit == EffectiveLimit(m.vm.data, metric)
             over  == OverLimit(total, limit)
             m1    == [m EXCEPT !.vm.usage[metric] = total,
                                !.chg = [metric |-> metric, amount |-> amount,
                                         total |-> total, limit |-> limit,
                                         raised |-> over, pc |-> m.vm.pc]]
             m2    == Emit(m1, "charge", metric, <<>>)
         IN IF over THEN Raise(m2, "RuntimeError", "QuotaExceeded") ELSE m2

(* ---- CapPolicy ---- *)

\* PreGranted with the auto-grant test left out
PreGrantedNoAuto(v, cap) ==
    IsGranted(v.data, v.app_id, cap) \/ cap \in v.allowed

\* the conditions under which require() grants without asking (runtime.py line 119)
PreGranted(v, cap) ==
    IsGranted(v.data, v.app_id, cap) \/ cap \in v.allowed \/ v.auto_yes

\* input(...).strip().lower() == "y"
SaysYes(ans) == (IF ans = "Y" THEN "y" ELSE ans) = "y"

\* CapPolicy.require; ans is what the operator types if prompted
Require(m, cap, ans) ==
    IF Failed(m) THEN m
    ELSE LET v == m.vm
             r == [cap |-> cap, in_session |-> cap \in v.granted,
                   in_store |-> IsGranted(v.data, v.app_id, cap),
                   declared |-> cap \in v.allowed, auto |-> v.auto_yes,
                   granted0 |-> v.granted, data0 |-> v.data, pfile0 |-> m.pfile,
                   nev0 |-> Len(m.ev), nlog0 |-> Len(m.log),
                   prompted |-> FALSE, answer |-> "", ok |-> TRUE, some |-> TRUE]
         IN IF cap \in v.granted
            THEN Emit([m EXCEPT !.req = r], "require", cap, <<>>)
            ELSE IF PreGranted(v, cap)
            THEN LET m1 == [m EXCEPT !.req = r, !.vm.granted = @ \cup {cap}]
                     m2 == IF IsGranted(v.data, v.app_id, cap) THEN m1
                           ELSE PolicyGrant(m1, cap)
                 IN Emit(m2, "require", cap, <<>>)
            ELSE LET m1 == Emit([m EXCEPT !.req = [r EXCEPT !.prompted = TRUE,
                                                           !.answer = ans,
                                                           !.ok = SaysYes(ans)]],
                                "prompt", cap, <<>>)
                 IN IF SaysYes(ans)
                    THEN Emit(PolicyGrant([m1 EXCEPT !.vm.granted = @ \cup {cap}], cap),
                              "require", cap, <<>>)
                    ELSE Raise(m1, "PermissionError", "CapabilityDenied")

-----------------------------------------------------------------------------
(* Filesystem primitives (pathlib / os) *)

IsFile(m, p) == p \in DOMAIN m.files
IsDir(m, p) == p \in m.dirs
\* p.exists(); logs/tx.jsonl is there once a line has been written to it
Exists(m, p) == IsFile(m, p) \/ IsDir(m, p) \/ (p = LogP /\ m.log # <<>>)

RECURSIVE MkdirFrom(_, _, _)
MkdirFrom(m, p, k) ==
    IF k > Len(p) THEN m
    ELSE LET q == SubSeq(p, 1, k)
         IN IF IsDir(m, q) THEN MkdirFrom(m, p, k + 1)
            ELSE MkdirFrom(Emit([m EXCEPT !.dirs = @ \cup {q}], "mkdir", "", q), p, k + 1)

\* Path.mkdir(parents=True, exist_ok=True)
MkdirParents(m, p) ==
    IF Failed(m) THEN m
    ELSE IF \E k \in 1..Len(p) : IsFile(m, SubSeq(p, 1, k))
         THEN Raise(m, "OSError", "NotADirectory")
         ELSE MkdirFrom(m, p, 1)

\* Path.write_text / open(p, "w"): create or truncate the file
PutFile(m, p, c) ==
    IF Failed(m) THEN m
    ELSE IF IsDir(m, p) THEN Raise(m, "OSError", "IsADirectory")
    ELSE IF ~IsDir(m, Parent(p)) THEN Raise(m, "OSError", "NoSuchDirectory")
    ELSE Emit([m EXCEPT !.files = [q \in DOMAIN @ \cup {p} |-> IF q = p THEN c ELSE @[q]]],
              "write", "", p)

\* p.stat().st_size if p.exists() else 0
StatSize(m, p) == IF IsFile(m, p) THEN Bytes(m.files[p]) ELSE 0

\* TxLogger.write: one line appended, stamped with dry_run and run_id
TxWrite(m, op, path, dest, pre, created, hash, note) ==
    IF Failed(m) THEN m
    ELSE Emit([m EXCEPT !.log = Append(@,
                 [op |-> op, path |-> path, dest |-> dest, pre_exists |-> pre,
                  created |-> created, hash |-> hash, note |-> note,
                  dry_run |-> m.vm.dry, run_id |-> m.vm.run_id])],
              "log", op, IF op = "ZIP" THEN dest ELSE path)

\* a line of logs/tx.jsonl that no TxLogger wrote
TextLine ==
    [op |-> "TEXT", path |-> <<>>, dest |-> <<>>, pre_exists |-> FALSE, created |-> FALSE,
     hash |-> NoHash, note |-> "", dry_run |-> FALSE, run_id |-> 0]

\* ensure_under inside a syscall wrapper: fall through, or PermissionError
EnsureUnder(m, path) ==
    IF Failed(m) THEN m
    ELSE IF EnsureUnderOk(SbxArg, path) THEN m
    ELSE Raise(m, "PermissionError", "PathEscapesSandbox")

-----------------------------------------------------------------------------
(* VM syscall wrappers (runtime.py, "capability-gated") *)

CreatedFlag(pre) == IF pre THEN "false" ELSE "true"

\* the table json/csv parsing yields for a file's bytes
ParseCsv(c) ==
    IF c.t = "csv" THEN Value("table", EmptyFn, {"header", "rows"}, c.v)
    ELSE Value("table", EmptyFn, {"header", "rows"}, <<>>)

\* p.stat().st_size if p.exists() else 0
FileSize(m, p) == IF IsDir(m, p) THEN 4096 ELSE StatSize(m, p)

\* VM._fs_read_csv from p.open() on: read, parse, log, return the table
ReadCsvRows(m, p) ==
    IF Failed(m) THEN m
    ELSE IF ~IsFile(m, p) THEN Raise(m, "OSError", "CannotOpen")
    ELSE [TxWrite(Emit(m, "read", "", p), "READ_CSV", p, <<>>, TRUE, "absent", NoHash, "")
            EXCEPT !.ret = ParseCsv(m.files[p])]

\* VM._fs_read_csv, p being the resolved path (require and ensure_under leave
\* the sandbox files as they are, so the size is that of the file on entry)
FsReadCsvAt(m, path, p, ans) ==
    ReadCsvRows(Charge(EnsureUnder(Require(m, "fs.read", ans), path),
                       "io_bytes", FileSize(m, p)), p)

\* VM._fs_read_csv
FsReadCsv(m, path, ans) == FsReadCsvAt(m, path, Resolve(path), ans)

\* if not pre_exists: self.quotas.charge("files_written", 1)
ChargeNewFile(m, pre) == IF pre THEN m ELSE Charge(m, "files_written", 1)

\* if not self.dry: p.parent.mkdir(parents=True, exist_ok=True); p.write_text(...)
\* written to logs/tx.jsonl, the text takes the place of the lines the file held
WriteUnlessDry(m, p, c) ==
    IF m.vm.dry THEN m
    ELSE IF p = LogP THEN (IF Failed(m) THEN m ELSE [m EXCEPT !.log = <<TextLine>>])
    ELSE PutFile(MkdirParents(m, Parent(p)), p, c)

\* post_hash = sha256_file(p) if (not self.dry) else None
HashUnlessDry(m, c) == IF m.vm.dry THEN NoHash ELSE Sha256(c)

\* FsWriteBody with the quota charged after the file is written
FsWriteChargeAfter(m, op, p, c, pre) ==
    TxWrite(ChargeNewFile(Charge(WriteUnlessDry(m, p, c), "io_bytes", Bytes(c)), pre),
            op, p, <<>>, pre, CreatedFlag(pre), HashUnlessDry(m, c), "")

\* _fs_write_text / _fs_write_json after ensure_under: charge, write, log
FsWriteBody(m, op, p, c, pre) ==
    TxWrite(WriteUnlessDry(ChargeNewFile(Charge(m, "io_bytes", Bytes(c)), pre), p, c),
            op, p, <<>>, pre, CreatedFlag(pre), HashUnlessDry(m, c), "")

\* the write wrappers, p being the resolved path; pre_exists is read after
\* require and ensure_under, which leave the sandbox files as they are
FsWriteAt(m, op, path, p, c, ans) ==
    FsWriteBody(EnsureUnder(Require(Emit(m, "call", op, p), "fs.write", ans), path),
                op, p, c, Exists(m, p))

\* the body shared by VM._fs_write_text and VM._fs_write_json
FsWrite(m, op, path, c, ans) == FsWriteAt(m, op, path, Resolve(path), c, ans)

\* VM._fs_write_text
FsWriteText(m, path, c, ans) == FsWrite(m, "WRITE_FILE", path, c, ans)

\* json.dumps(obj, indent=2, sort_keys=True, ...): the text of a slot value
JsonDumps(obj) == Content("json", obj, 1)

\* VM._fs_write_json
FsWriteJson(m, path, obj, ans) == FsWrite(m, "WRITE_JSON", path, JsonDumps(obj), ans)

\* if not self.dry: p.mkdir(parents=True, exist_ok=True)
MkdirUnlessDry(m, p) == IF m.vm.dry THEN m ELSE MkdirParents(m, p)

\* VM._fs_mkdir, p being the resolved path
FsMkdirAt(m, path, p, ans) ==
    TxWrite(MkdirUnlessDry(EnsureUnder(Require(m, "fs.write", ans), path), p),
            "MAKE_DIR", p, <<>>, Exists(m, p), CreatedFlag(Exists(m, p)), NoHash, "")

\* VM._fs_mkdir
FsMkdir(m, path, ans) == FsMkdirAt(m, path, Resolve(path), ans)

\* the files os.walk(src) finds, as relative path -> content
WalkFiles(m, src) ==
    LET under == {q \in DOMAIN m.files : ProperlyUnder(q, src)}
    IN [q \in under |-> m.files[q]]

RECURSIVE EmitReads(_, _)
EmitReads(m, ps) ==
    IF ps = {} THEN m
    ELSE LET q == CHOOSE x \in ps : \A y \in ps : Len(PathStr(x)) <= Len(PathStr(y))
         IN EmitReads(Emit(m, "read", "", q), ps \ {q})

\* the loop of _zip_dir: every file under src is read and added to the archive
ZipFill(m, src, dest) ==
    IF Failed(m) THEN m
    ELSE [EmitReads(m, DOMAIN WalkFiles(m, src))
            EXCEPT !.files[dest] = Content("zip", WalkFiles(m, src), 1)]

\* if not self.dry: with zipfile.ZipFile(dest, "w") ...
ZipUnlessDry(m, src, dest) ==
    IF m.vm.dry \/ Failed(m) THEN m
    ELSE ZipFill(PutFile(m, dest, Content("zip", EmptyFn, 0)), src, dest)

\* post_hash and the ZIP log entry
ZipLog(m, src, dest, pre) ==
    TxWrite(m, "ZIP", src, dest, pre, CreatedFlag(pre),
            IF m.vm.dry \/ Failed(m) THEN NoHash ELSE Sha256(m.files[dest]), "")

\* VM._zip_dir, src and dest being the resolved paths
ZipDirAt(m, src_dir, dest_zip, src, dest, ans) ==
    ZipLog(ZipUnlessDry(EnsureUnder(EnsureUnder(Require(m, "fs.write", ans), src_dir),
                                    dest_zip), src, dest),
           src, dest, Exists(m, dest))

\* VM._zip_dir
ZipDir(m, src_dir, dest_zip, ans) ==
    ZipDirAt(m, src_dir, dest_zip, Resolve(src_dir), Resolve(dest_zip), ans)

\* VM._verify_zip after ensure_under, p being the resolved path
VerifyZipAt(m, p) ==
    IF Failed(m) THEN m
    ELSE IF m.vm.dry THEN TxWrite(m, "VERIFY_ZIP", p, <<>>, TRUE, "absent", NoHash, "ok=false")
    ELSE IF ~IsFile(m, p) THEN Raise(m, "OSError", "CannotOpen")
    ELSE IF m.files[p].t # "zip" THEN Raise(Emit(m, "read", "", p), "BadZipFile", "NotAZip")
    ELSE TxWrite(Emit(m, "read", "", p), "VERIFY_ZIP", p, <<>>, TRUE, "absent", NoHash,
                 "ok=true")

\* VM._verify_zip
VerifyZip(m, zpath) == VerifyZipAt(EnsureUnder(m, zpath), Resolve(zpath))

\* _proc_spawn_cli_predict after the cpu_ms charge: the return code decides
SpawnResult(m, bad) ==
    IF Failed(m) THEN m
    ELSE IF bad
         THEN Raise(TxWrite(m, "VERIFY_CLI", <<>>, <<>>, TRUE, "absent", NoHash, "ok=false"),
                    "RuntimeError", "PredictFailed")
    ELSE TxWrite(m, "VERIFY_CLI", <<>>, <<>>, TRUE, "absent", NoHash, "ok=true")

\* _proc_spawn_cli_predict after ensure_under, adir and sin being the resolved paths
SpawnAt(m, adir, sin, ms, rc) ==
    IF Failed(m) THEN m
    ELSE IF m.vm.dry
         THEN TxWrite(m, "VERIFY_CLI", adir, sin, TRUE, "absent", NoHash, "dry_preview")
    ELSE IF ~IsDir(m, adir) THEN Raise(m, "OSError", "NoSuchDirectory")
    ELSE SpawnResult(Charge(Emit(m, "spawn", "", adir), "cpu_ms", ms),
                     rc # 0 \/ ~IsFile(m, Append(adir, PredictName)))

\* VM._proc_spawn_cli_predict; ms and rc are what the child process took and returned
ProcSpawnCliPredict(m, app_dir, sample_json, ans, ms, rc) ==
    SpawnAt(EnsureUnder(EnsureUnder(Require(m, "proc.spawn", ans), app_dir), sample_json),
            Resolve(app_dir), Resolve(sample_json), ms, rc)

-----------------------------------------------------------------------------
(* Bytecode instructions and the tools CALL_TOOL dispatches to *)

Str(v) == [s |-> TRUE, v |-> v]      \* a JSON string operand
Lit(v) == [s |-> FALSE, v |-> v]     \* a JSON object operand

S0 == <<"S", "0">>
S1 == <<"S", "1">>

NegInf == -1000000                   \* float("-inf")

NoIns == [op |-> "", tool |-> "", p1 |-> <<>>, p2 |-> <<>>, s1 |-> <<>>, s2 |-> <<>>,
          out |-> <<>>, field |-> "", thr |-> 0, ins |-> EmptyFn, outs |-> EmptyFn]

\* VM._render_report: the markdown text for a schema and metrics
RenderReport(schema, metrics) == Content("report", <<schema, metrics>>, 2)

\* PREDICT_PY, the text BUILD_CLI writes
PredictPy == Content("predict_py", <<>>, 2)

\* the f-string predict.py of tools/io/build_cli/impl.py
PredictStub(model) == Content("predict_stub", model, 2)

ToolNames == {"read_csv", "emit_report", "build_cli", "zip", "verify_zip", "verify_cli",
              "profile", "assert_ge"}

\* dict keys used as guard fields: the key, and its spelling as a JSON string operand
FieldNames == {"R2", "rows", "Score"}
FieldChars(f) ==
    CASE f = "R2" -> <<"R", "2">>
      [] f = "Score" -> <<"S", "c", "o", "r", "e">>
      [] f = "rows" -> <<"r", "o", "w", "s">>
      [] OTHER -> <<>>
FieldKey(cs) == IF \E f \in FieldNames : FieldChars(f) = cs
                THEN CHOOSE f \in FieldNames : FieldChars(f) = cs ELSE ""

\* resolved_inputs of the CALL_TOOL branch: slot references replaced by slot contents
IsSlotRef(x) == x.s /\ StartsWith(x.v, <<"S">>)
MissingSlots(m, ins) == {k \in DOMAIN ins : IsSlotRef(ins[k]) /\ ins[k].v \notin DOMAIN m.vm.mem}
ResolveInputs(m, ins) ==
    [k \in DOMAIN ins |-> IF IsSlotRef(ins[k]) THEN Lit(m.vm.mem[ins[k].v]) ELSE ins[k]]

\* tools/io/emit_report/impl.py execute
ToolEmitReport(m, inp, ans) ==
    IF ~({"schema", "metrics", "output_path"} \subseteq DOMAIN inp)
    THEN Raise(m, "KeyError", "ToolInputMissing")
    ELSE IF inp["schema"].s \/ inp["metrics"].s THEN Raise(m, "AttributeError", "NotADict")
    ELSE [FsWriteText(m, inp["output_path"].v,
                      RenderReport(inp["schema"].v, inp["metrics"].v), ans)
            EXCEPT !.ret = EmptyFn]

\* history only: the events after position n were made by a tool's own code
ByTool(m, n) ==
    [m EXCEPT !.ev = [i \in 1..Len(@) |->
                        IF i > n /\ @[i].k \in {"write", "mkdir"}
                        THEN [@[i] EXCEPT !.a = "tool"] ELSE @[i]]]

\* tools/io/build_cli/impl.py execute. The VM has no _build_cli method, so
\* hasattr(context, '_build_cli') is false and the tool takes its own branch.
ToolBuildCli(m, inp, ans) ==
    IF ~({"model", "schema", "output_dir"} \subseteq DOMAIN inp)
    THEN Raise(m, "KeyError", "ToolInputMissing")
    ELSE LET out == Resolve(inp["output_dir"].v)
             m1  == MkdirParents(m, out)
             m2  == IF inp["model"].s THEN Raise(m1, "AttributeError", "NotADict")
                    ELSE PutFile(m1, Append(out, PredictName), PredictStub(inp["model"].v))
         IN [ByTool(m2, Len(m.ev)) EXCEPT !.ret = EmptyFn]

\* return {"table": {"header": header, "rows": rows}}
TableResult(m) == IF Failed(m) THEN m ELSE [m EXCEPT !.ret = [k \in {"table"} |-> m.ret]]

\* tools/data/read_csv/impl.py execute
ToolReadCsv(m, inp, ans) ==
    IF "path" \notin DOMAIN inp THEN Raise(m, "KeyError", "ToolInputMissing")
    ELSE TableResult(FsReadCsv(m, inp["path"].v, ans))

\* tools/io/zip/impl.py execute
ToolZip(m, inp, ans) ==
    IF ~({"source_dir", "output_path"} \subseteq DOMAIN inp)
    THEN Raise(m, "KeyError", "ToolInputMissing")
    ELSE [ZipDir(m, inp["source_dir"].v, inp["output_path"].v, ans) EXCEPT !.ret = EmptyFn]

\* tools/verify/verify_zip/impl.py execute
ToolVerifyZip(m, inp, ans) ==
    IF "zip_path" \notin DOMAIN inp THEN Raise(m, "KeyError", "ToolInputMissing")
    ELSE [VerifyZip(m, inp["zip_path"].v) EXCEPT !.ret = EmptyFn]

\* tools/verify/verify_cli/impl.py execute
ToolVerifyCli(m, inp, ans, ms, rc) ==
    IF ~({"app_dir", "sample_input"} \subseteq DOMAIN inp)
    THEN Raise(m, "KeyError", "ToolInputMissing")
    ELSE [ProcSpawnCliPredict(m, inp["app_dir"].v, inp["sample_input"].v, ans, ms, rc)
            EXCEPT !.ret = [k \in {"prediction"} |-> 0]]

\* VM._profile(header, rows): {"rows": n, "cols": [...]}
Profile(tbl) == Value("schema", [k \in {"rows"} |-> Len(tbl.x)], {"cols"}, tbl.x)

\* tools/data/profile/impl.py execute: the VM has _profile, so the tool calls it
ToolProfile(m, inp) ==
    IF "table" \notin DOMAIN inp THEN Raise(m, "KeyError", "ToolInputMissing")
    ELSE IF inp["table"].s THEN Raise(m, "TypeError", "NotADict")
    ELSE IF inp["table"].v.k # "table" THEN Raise(m, "KeyError", "NotATable")
    ELSE [m EXCEPT !.ret = [k \in {"schema"} |-> Profile(inp["table"].v)]]

\* tools/verify/assert_ge/impl.py execute, once the three inputs are read
AssertGeTool(m, d, key, thr) ==
    IF key \notin DOMAIN d.num \cup d.keys THEN Raise(m, "ValueError", "FieldNotFound")
    ELSE IF key \in d.keys THEN Raise(m, "ValueError", "NotANumber")
    ELSE IF d.num[key] < thr THEN Raise(m, "RuntimeError", "GuardFailed")
    ELSE [m EXCEPT !.ret = EmptyFn]

ToolAssertGe(m, inp) ==
    IF ~({"metrics", "field", "threshold"} \subseteq DOMAIN inp)
    THEN Raise(m, "KeyError", "ToolInputMissing")
    ELSE IF inp["metrics"].s THEN Raise(m, "TypeError", "NotADict")
    ELSE AssertGeTool(m, inp["metrics"].v, FieldKey(inp["field"].v), inp["threshold"].v)

\* except Exception as e: raise RuntimeError(...)
WrapToolError(m) == IF Failed(m) THEN [m EXCEPT !.vm.err.cls = "RuntimeError"] ELSE m

\* module.execute(inputs, context) of the tool's impl.py
ToolExecute(m, tool, inp, ans, ms, rc) ==
    CASE tool = "emit_report" -> ToolEmitReport(m, inp, ans)
      [] tool = "build_cli"   -> ToolBuildCli(m, inp, ans)
      [] tool = "read_csv"    -> ToolReadCsv(m, inp, ans)
      [] tool = "zip"         -> ToolZip(m, inp, ans)
      [] tool = "verify_zip"  -> ToolVerifyZip(m, inp, ans)
      [] tool = "profile"     -> ToolProfile(m, inp)
      [] tool = "assert_ge"   -> ToolAssertGe(m, inp)
      [] OTHER                -> ToolVerifyCli(m, inp, ans, ms, rc)

\* ToolRegistry.call_tool: load the module, call execute, wrap whatever it raises
CallTool(m, tool, inp, ans, ms, rc) ==
    IF tool \notin ToolNames THEN Raise(m, "RuntimeError", "UnknownTool")
    ELSE WrapToolError(ToolExecute(Emit(m, "exec", tool, <<>>), tool, inp, ans, ms, rc))

-----------------------------------------------------------------------------
(* VM.run: the dispatch of one instruction *)

\* self.mem[slot]
HasSlot(m, slot) == slot \in DOMAIN m.vm.mem

SetSlot(m, slot, val) ==
    IF Failed(m) THEN m
    ELSE [m EXCEPT !.vm.mem = [q \in DOMAIN @ \cup {slot} |-> IF q = slot THEN val ELSE @[q]]]

MissingInput(m) == Raise(m, "KeyError", "MissingInput")

\* the comparison of the ASSERT_GE branch: the guard fails when val < thr
GuardFails(val, thr) == val < thr

\* CALL_TOOL after call_tool returned: outputs into slots, then the cpu_ms charge
StoreOutputs(m, outs) ==
    IF Failed(m) THEN m
    ELSE LET got == {k \in DOMAIN outs : k \in DOMAIN m.ret}
         IN Charge([m EXCEPT !.vm.mem =
                      [q \in DOMAIN @ \cup {outs[k] : k \in got} |->
                         IF \E k \in got : outs[k] = q
                         THEN m.ret[CHOOSE k \in got : outs[k] = q]
                         ELSE @[q]]],
                   "cpu_ms", 10)

ExecCallTool(m, ins, ans, ms, rc) ==
    IF MissingSlots(m, ins.ins) # {} THEN MissingInput(m)
    ELSE StoreOutputs(CallTool(m, ins.tool, ResolveInputs(m, ins.ins), ans, ms, rc), ins.outs)

\* self.mem[out_slot] = <what the wrapper returned>
StoreRet(m, slot) == SetSlot(m, slot, m.ret)

ExecReadCsv(m, ins, ans) == StoreRet(FsReadCsv(m, ins.p1, ans), ins.out)

ExecAssertGe(m, ins) ==
    IF ~HasSlot(m, ins.s1) THEN MissingInput(m)
    ELSE LET d == m.vm.mem[ins.s1]
         IN IF ins.field \in d.keys THEN Raise(m, "TypeError", "NotANumber")
            ELSE LET val == IF ins.field \in DOMAIN d.num THEN d.num[ins.field] ELSE NegInf
                     m1  == TxWrite(m, "ASSERT_GE", <<>>, <<>>, FALSE, "absent", NoHash,
                                    IF val >= ins.thr THEN "ok=true" ELSE "ok=false")
                 IN IF GuardFails(val, ins.thr) THEN Raise(m1, "RuntimeError", "GuardFailed")
                    ELSE m1

\* the PROFILE branch; _detect_messy_data_context is false for the tables of this model
\* (no customer columns, no empty cells), so the branch calls _profile
ExecProfile(m, ins) ==
    IF ~HasSlot(m, ins.s1) THEN MissingInput(m)
    ELSE IF m.vm.mem[ins.s1].k # "table" THEN Raise(m, "KeyError", "NotATable")
    ELSE SetSlot(m, ins.out, Profile(m.vm.mem[ins.s1]))

ExecEmitReport(m, ins, ans) ==
    IF ~HasSlot(m, ins.s1) \/ ~HasSlot(m, ins.s2) THEN MissingInput(m)
    ELSE FsWriteText(m, ins.p1, RenderReport(m.vm.mem[ins.s1], m.vm.mem[ins.s2]), ans)

\* BUILD_CLI after _fs_mkdir: the two slots are read, then the three files written
BuildCliFiles(m, ins, ans) ==
    IF Failed(m) THEN m
    ELSE IF ~HasSlot(m, ins.s1) \/ ~HasSlot(m, ins.s2) THEN MissingInput(m)
    ELSE FsWriteText(
            FsWriteJson(
               FsWriteJson(m, PathJoin(ins.p1, ModelName), m.vm.mem[ins.s1], ans),
               PathJoin(ins.p1, SchemaName), m.vm.mem[ins.s2], ans),
            PathJoin(ins.p1, PredictName), PredictPy, ans)

ExecBuildCli(m, ins, ans) == BuildCliFiles(FsMkdir(m, ins.p1, ans), ins, ans)

\* the if/elif chain of VM.run
Dispatch(m, ins, ans, ms, rc) ==
    CASE ins.op = "CALL_TOOL"   -> ExecCallTool(m, ins, ans, ms, rc)
      [] ins.op = "READ_CSV"    -> ExecReadCsv(m, ins, ans)
      [] ins.op = "PROFILE"     -> ExecProfile(m, ins)
      [] ins.op = "ASSERT_GE"   -> ExecAssertGe(m, ins)
      [] ins.op = "EMIT_REPORT" -> ExecEmitReport(m, ins, ans)
      [] ins.op = "BUILD_CLI"   -> ExecBuildCli(m, ins, ans)
      [] ins.op = "ZIP"         -> ZipDir(m, ins.p1, ins.p2, ans)
      [] ins.op = "VERIFY_ZIP"  -> VerifyZip(m, ins.p1)
      [] ins.op = "VERIFY_CLI"  -> ProcSpawnCliPredict(m, ins.p1, ins.p2, ans, ms, rc)
      [] OTHER -> Raise(m, "NotImplementedError", "UnknownOpcode")

\* pc += 1, reached only when the instruction raised nothing
\* a loop that moves on after a failed instruction
AdvancePastFailure(m) == [m EXCEPT !.vm.pc = @ + 1]

Advance(m) == IF Failed(m) THEN m ELSE [m EXCEPT !.vm.pc = @ + 1]

\* one pass through the body of the while loop of VM.run
Exec(m, ins, ans, ms, rc) ==
    Advance(Dispatch(Emit(m, "instr", ins.op, <<>>), ins, ans, ms, rc))

-----------------------------------------------------------------------------
(* VM.run after the loop, and undo *)

\* VM._write_out_checksums
WriteOutChecksums(m) ==
    LET out    == Append(Sbx, <<"o">>)
        found  == IF IsDir(m, out) THEN WalkFiles(m, out) ELSE EmptyFn
        checks == [q \in DOMAIN found |-> Sha256(found[q])]
        m1     == EmitReads(m, DOMAIN found)
        path   == Append(out, ChecksumsName)
        body   == Content("checksums", [run_id |-> m.vm.run_id, checksums |-> checks], 1)
        m2     == PutFile(MkdirParents(m1, out), path, body)
    IN TxWrite(m2, "WRITE_CHECKSUMS", path, <<>>, FALSE, "absent", NoHash, "")

\* VM.run from the end of the loop
RunEpilogue(m) ==
    LET m1 == TxWrite([m EXCEPT !.vm.state = "DONE"], "RUN_END", <<>>, <<>>, FALSE,
                      "absent", NoHash, "")
    IN IF m.vm.dry THEN m1 ELSE WriteOutChecksums(m1)

\* undo_last_run: the run_id of the last RUN_START line, <<>> when there is none
LastRunId(log) ==
    LET starts == {i \in 1..Len(log) : log[i].op = "RUN_START"}
    IN IF starts = {} THEN <<>>
       ELSE <<log[CHOOSE i \in starts : \A j \in starts : j <= i].run_id>>

\* undo_last_run: does this log line name a path to remove?
UndoCollects(r) ==
    \/ r.op \in {"WRITE_FILE", "WRITE_JSON", "ZIP", "MAKE_DIR"} /\ r.created = "true"
    \/ r.op = "WRITE_CHECKSUMS"

UndoPathOf(r) == IF r.op = "ZIP" THEN r.dest ELSE r.path

RECURSIVE CreatedPaths(_, _, _)
\* undo_last_run: the created paths of the run, in log order
CreatedPaths(log, rid, i) ==
    IF i > Len(log) THEN <<>>
    ELSE IF log[i].run_id = rid /\ UndoCollects(log[i])
         THEN <<UndoPathOf(log[i])>> \o CreatedPaths(log, rid, i + 1)
         ELSE CreatedPaths(log, rid, i + 1)

DirEmpty(fs, p) ==
    /\ \A q \in DOMAIN fs.files : ~ProperlyUnder(q, p)
    /\ \A q \in fs.dirs : ~ProperlyUnder(q, p)

RECURSIVE UndoRemoveInLogOrder(_, _, _)
\* the removal loop over created as logged, not reversed: i paths are still to come
UndoRemoveInLogOrder(fs, created, i) ==
    IF i = 0 THEN fs
    ELSE LET p == created[Len(created) - i + 1]
         IN IF p \in DOMAIN fs.files
            THEN UndoRemoveInLogOrder([fs EXCEPT !.files = [q \in DOMAIN @ \ {p} |-> @[q]],
                                                !.gone = Append(@, p)], created, i - 1)
            ELSE IF p \in fs.dirs /\ DirEmpty(fs, p)
            THEN UndoRemoveInLogOrder([fs EXCEPT !.dirs = @ \ {p}, !.gone = Append(@, p)],
                                      created, i - 1)
            ELSE UndoRemoveInLogOrder(fs, created, i - 1)

RECURSIVE UndoRemove(_, _, _)
\* undo_last_run: the removal loop over reversed(created); fs = [files, dirs, gone]
UndoRemove(fs, created, i) ==
    IF i = 0 THEN fs
    ELSE LET p == created[i]
         IN IF p \in DOMAIN fs.files
            THEN UndoRemove([fs EXCEPT !.files = [q \in DOMAIN @ \ {p} |-> @[q]],
                                       !.gone = Append(@, p)], created, i - 1)
            ELSE IF p \in fs.dirs /\ DirEmpty(fs, p)
            THEN UndoRemove([fs EXCEPT !.dirs = @ \ {p}, !.gone = Append(@, p)], created, i - 1)
            ELSE UndoRemove(fs, created, i - 1)

\* undo_last_run(sandbox_root)
UndoLastRun(log, fs) ==
    LET rid == LastRunId(log)
    IN IF log = <<>> \/ rid = <<>> THEN [fs EXCEPT !.gone = <<>>]
       ELSE LET created == CreatedPaths(log, rid[1], 1)
            IN UndoRemove([fs EXCEPT !.gone = <<>>], created, Len(created))

-----------------------------------------------------------------------------
(* Programs, initial sandboxes, and the inputs the environment supplies *)

LitDict == Lit(Value("dict", EmptyFn, {}, <<>>))

IReadCsv      == [NoIns EXCEPT !.op = "READ_CSV", !.p1 = InCsv, !.out = S0]
IReadEscape   == [NoIns EXCEPT !.op = "READ_CSV", !.p1 = EscapePath, !.out = S0]
IEmitReport   == [NoIns EXCEPT !.op = "EMIT_REPORT", !.s1 = S0, !.s2 = S0, !.p1 = ReportPath]
IEmitLog      == [NoIns EXCEPT !.op = "EMIT_REPORT", !.s1 = S0, !.s2 = S0, !.p1 = TxLogPath]
IBuildCli     == [NoIns EXCEPT !.op = "BUILD_CLI", !.s1 = S0, !.s2 = S0, !.p1 = AppDir]
IMkdirRoot    == [NoIns EXCEPT !.op = "BUILD_CLI", !.s1 = S0, !.s2 = S0, !.p1 = SbxArg]
IZip          == [NoIns EXCEPT !.op = "ZIP", !.p1 = AppDir, !.p2 = ZipPath]
IVerifyZip    == [NoIns EXCEPT !.op = "VERIFY_ZIP", !.p1 = ZipPath]
IVerifyCli    == [NoIns EXCEPT !.op = "VERIFY_CLI", !.p1 = AppDir, !.p2 = SampleJson]
IGuardFail    == [NoIns EXCEPT !.op = "ASSERT_GE", !.s1 = S0, !.field = "R2", !.thr = 6]
IGuardPass    == [NoIns EXCEPT !.op = "ASSERT_GE", !.s1 = S0, !.field = "R2", !.thr = NegInf]
IUnknown      == [NoIns EXCEPT !.op = "NOP"]
IToolEmit     == [NoIns EXCEPT !.op = "CALL_TOOL", !.tool = "emit_report",
                    !.ins = [k \in {"schema", "metrics", "output_path"} |->
                               IF k = "output_path" THEN Str(ReportPath) ELSE LitDict]]
IToolEmitSib  == [NoIns EXCEPT !.op = "CALL_TOOL", !.tool = "emit_report",
                    !.ins = [k \in {"schema", "metrics", "output_path"} |->
                               IF k = "output_path" THEN Str(SiblingPath) ELSE LitDict]]
IToolBuildCli == [NoIns EXCEPT !.op = "CALL_TOOL", !.tool = "build_cli",
                    !.ins = [k \in {"model", "schema", "output_dir"} |->
                               IF k = "output_dir" THEN Str(AppDir) ELSE LitDict]]
IToolReadCsv  == [NoIns EXCEPT !.op = "CALL_TOOL", !.tool = "read_csv",
                    !.ins = [k \in {"path"} |-> Str(InCsv)],
                    !.outs = [k \in {"table"} |-> S0]]

Instrs == {IReadCsv, IReadEscape, IEmitReport, IBuildCli, IMkdirRoot, IZip, IVerifyZip,
           IVerifyCli, IGuardFail, IGuardPass, IUnknown, IToolEmit, IToolEmitSib,
           IToolBuildCli, IToolReadCsv}

Programs == UNION {[1..k -> Instrs] : k \in 0..MaxProg}

\* app_id = sha256(json.dumps(program))[:12]
AppId(prog) == <<"sha256", prog>>

Answers == {"y", "Y", "n"}
\* elapsed milliseconds of the child process; the last one is over the default cpu_ms limit
CpuTimes == {0, 20, DefaultCpuMs + 1}
RetCodes == {0, 1}
DeclaredSets == {{}, {"fs.read", "fs.write"}}

CsvData == Content("csv", << <<1, 2>>, <<3, 4>> >>, 1)
SampleData == Content("json", <<>>, 1)
OldReport == Content("report", <<"old">>, 1)
OldChecksums == Content("checksums", [run_id |-> 0, checksums |-> EmptyFn], 1)

Prefixes(p) == {SubSeq(p, 1, k) : k \in 0..Len(p)}

FreshFiles == [q \in {Resolve(InCsv), Resolve(SampleJson)} |->
                 IF q = Resolve(InCsv) THEN CsvData ELSE SampleData]
UsedFiles == [q \in DOMAIN FreshFiles \cup {Resolve(ReportPath), Append(OutP, ChecksumsName)} |->
                 IF q \in DOMAIN FreshFiles THEN FreshFiles[q]
                 ELSE IF q = Resolve(ReportPath) THEN OldReport ELSE OldChecksums]

\* policy.json as test_quota.py writes it, scaled: low io_bytes and files_written
TightPolicy == [exists |-> TRUE, grants |-> {},
                limits |-> [x \in {"io_bytes", "files_written"} |->
                               IF x = "io_bytes" THEN 3 ELSE 1]]

InitSandboxes ==
    { [files |-> FreshFiles, dirs |-> Prefixes(Sbx)],
      [files |-> UsedFiles, dirs |-> Prefixes(OutP)] }
InitPolicies == {NoPolicy, TightPolicy}

NoVM == [built |-> FALSE, prog |-> <<>>, app_id |-> <<>>, allowed |-> {}, auto_yes |-> FALSE,
         dry |-> FALSE, run_id |-> 0, granted |-> {}, data |-> PolicyLoad(NoPolicy),
         usage |-> [x \in Metrics |-> 0], mem |-> EmptyFn, state |-> "NONE", pc |-> 0,
         err |-> NoErr]

NoReq == [cap |-> "", in_session |-> FALSE, in_store |-> FALSE, declared |-> FALSE,
          auto |-> FALSE, granted0 |-> {}, data0 |-> PolicyLoad(NoPolicy), pfile0 |-> NoPolicy,
          nev0 |-> 0, nlog0 |-> 0, prompted |-> FALSE, answer |-> "", ok |-> FALSE,
          some |-> FALSE]

NoChg == [metric |-> "", amount |-> 0, total |-> 0, limit |-> 0, raised |-> FALSE, pc |-> 0]

NoUndo == [count |-> 0, gone |-> <<>>, targets |-> <<>>,
           before |-> [files |-> EmptyFn, dirs |-> {}]]

\* no package yet; checks is the parsed checksums.json the package embeds
NoPkg == [some |-> FALSE, prog |-> <<>>, allowed |-> {},
          checks |-> [run_id |-> -1, checksums |-> EmptyFn],
          of_run |-> -1, of_done |-> FALSE, start |-> {}]

NoRep == [phase |-> "none", ok |-> FALSE, diffs |-> {}, code |-> -1]

NoEarlier == [some |-> FALSE, prog |-> <<>>, run_id |-> 0, inputs |-> EmptyFn, out |-> EmptyFn]

\* no file at a path
NoFile == [exists |-> FALSE, program |-> <<>>, capabilities |-> {}]

NoComp == [some |-> FALSE, plan |-> <<>>, caps |-> {}, use_tools |-> FALSE, static |-> FALSE,
           ok |-> FALSE, err |-> "none", program |-> <<>>, slots |-> <<>>,
           before |-> NoFile, outfile |-> NoFile]

NoLook == [op |-> "none", model |-> "", inputs |-> <<>>, outputs |-> <<>>, allowed |-> FALSE,
           result |-> <<>>, stored |-> EmptyFn, from |-> 0]

NoSplit == [some |-> FALSE, rows |-> <<>>, tenths |-> 0, seed |-> 0, train |-> <<>>, val |-> <<>>]

\* no second VM instance on the sandbox
NoPeer == [vm |-> NoVM, ended |-> FALSE, overlapped |-> {}]

NoReal == [some |-> FALSE, run_id |-> -1, ended |-> FALSE,
           before |-> [files |-> EmptyFn, dirs |-> {}], after |-> [files |-> EmptyFn, dirs |-> {}]]

NoModes == [some |-> FALSE, plan |-> <<>>, legacy |-> <<>>, tools |-> <<>>]

NoPair == [some |-> FALSE, prog |-> <<>>, dry |-> <<>>, real |-> <<>>]

NoGate == [built |-> FALSE, replay_mode |-> FALSE, expected_calls |-> <<>>, actual_calls |-> <<>>]
\* ReplayGate.__init__
NewGate == [NoGate EXCEPT !.built = TRUE]

NoCache == [entries |-> EmptyFn, call_log |-> <<>>]
NoSideLog == [exists |-> FALSE, model_calls |-> <<>>]
NoPlan == [some |-> FALSE, replay |-> FALSE, cached |-> FALSE, backend |-> FALSE,
           result |-> "none", text |-> "", raised |-> FALSE]

-----------------------------------------------------------------------------
(* Actions *)

M == [files |-> files, dirs |-> dirs, pfile |-> policyFile, log |-> txlog, vm |-> vm,
      ev |-> ev, req |-> req, chg |-> chg, ret |-> <<>>]

Commit(m) ==
    /\ files' = m.files
    /\ dirs' = m.dirs
    /\ policyFile' = m.pfile
    /\ txlog' = m.log
    /\ vm' = m.vm
    /\ ev' = m.ev
    /\ req' = m.req
    /\ chg' = m.chg

Running == vm.built /\ vm.state = "RUN" /\ vm.err = NoErr
Stopped == vm.built /\ (vm.state = "DONE" \/ vm.err # NoErr)

\* VM.__init__(bytecode, sandbox_root, dry_run, auto_yes)
VmInit(m, prog, allowed, dry, auto, t) ==
    QuotasInit([m EXCEPT !.vm = [NoVM EXCEPT !.built = TRUE, !.prog = prog,
                                      !.app_id = AppId(prog), !.allowed = allowed,
                                      !.auto_yes = auto, !.dry = dry, !.run_id = t,
                                      !.data = PolicyLoad(m.pfile), !.state = "READY"],
                        !.ev = <<>>, !.req = NoReq, !.chg = NoChg])

Construct ==
    /\ ~vm.built
    /\ \E prog \in Programs, allowed \in DeclaredSets, dry \in BOOLEAN, auto \in BOOLEAN :
          Commit(VmInit(M, prog, allowed, dry, auto, now + 1))
    /\ now' = now + 1
    /\ snap' = [files |-> files, dirs |-> dirs]
    /\ UNCHANGED <<undo, sessVars>>

\* VM.run up to the loop
RunStart ==
    /\ vm.built /\ vm.state = "READY"
    /\ Commit(TxWrite([M EXCEPT !.vm.state = "RUN"], "RUN_START", <<>>, <<>>, FALSE,
                      "absent", NoHash, ""))
    /\ UNCHANGED <<now, snap, undo, sessVars>>

Spawns(ins) == ins.op = "VERIFY_CLI" \/ (ins.op = "CALL_TOOL" /\ ins.tool = "verify_cli")

\* VM.run: one iteration of the loop
Step ==
    /\ Running /\ vm.pc < Len(vm.prog)
    /\ LET ins == vm.prog[vm.pc + 1]
       IN \E ans \in Answers :
          \E ms \in (IF Spawns(ins) THEN CpuTimes ELSE {0}) :
          \E rc \in (IF Spawns(ins) THEN RetCodes ELSE {0}) :
             Commit(Exec(M, ins, ans, ms, rc))
    /\ UNCHANGED <<now, snap, undo, sessVars>>

\* VM.run: the loop is over
RunEnd ==
    /\ Running /\ vm.pc = Len(vm.prog)
    /\ Commit(RunEpilogue(M))
    /\ UNCHANGED <<now, snap, undo, sessVars>>

\* the undo command
Undo ==
    /\ Stopped /\ undo.count < MaxUndo
    /\ LET fs  == UndoLastRun(txlog, [files |-> files, dirs |-> dirs, gone |-> <<>>])
           rid == LastRunId(txlog)
       IN /\ files' = fs.files
          /\ dirs' = fs.dirs
          /\ undo' = [count |-> undo.count + 1, gone |-> fs.gone,
                      targets |-> IF rid = <<>> THEN <<>> ELSE CreatedPaths(txlog, rid[1], 1),
                      before |-> [files |-> files, dirs |-> dirs]]
    /\ UNCHANGED <<policyFile, txlog, vm, now, ev, snap, req, chg, sessVars>>

InitSandbox ==
    /\ \E sb \in InitSandboxes : files = sb.files /\ dirs = sb.dirs
    /\ policyFile \in InitPolicies
    /\ txlog = <<>>
    /\ vm = NoVM
    /\ now = 0
    /\ ev = <<>>
    /\ snap = [files |-> EmptyFn, dirs |-> {}]
    /\ req = NoReq
    /\ chg = NoChg
    /\ undo = NoUndo
    /\ runs = 0
    /\ pkg = NoPkg
    /\ rep = NoRep
    /\ earlier = NoEarlier
    /\ pair = NoPair
    /\ comp = NoComp
    /\ past = {}
    /\ look = NoLook
    /\ modes = NoModes
    /\ real = NoReal
    /\ peer = NoPeer
    /\ split = NoSplit

Init ==
    /\ InitSandbox
    /\ gate = NoGate
    /\ cache = NoCache
    /\ sidelog = NoSideLog
    /\ plan = NoPlan

Next == Construct \/ RunStart \/ Step \/ RunEnd \/ Undo

Spec == Init /\ [][Next]_vars

TypeOK == vm.state \in {"NONE", "READY", "RUN", "DONE"} /\ vm.pc \in 0..MaxProg

-----------------------------------------------------------------------------
(* The model-call cache, the replay gate and the planner's model call      *)
(* (aiox/kernel/model_cache.py, aiox/kernel/replay_gate.py,                *)
(*  aiox/planner/llm_planner.py)                                           *)

MaxCalls == 3       \* lines of logs/model_calls.jsonl per behaviour

ModelId == "claude-3-5-haiku-20241022"
Goals == {"g1", "g2"}
\* what client.messages.create does: a JSON plan, text without JSON, or an exception
Responses == {"plan", "junk", "error"}

\* an inputs dict is the sequence of its <<key, value>> items in insertion order; plan_workflow
\* builds model_inputs with these four keys, the prompt standing for the messages
ModelInputs(goal) ==
    << <<"model", ModelId>>, <<"max_tokens", "2000">>, <<"temperature", "0.1">>,
       <<"messages", goal>> >>

\* the keys of the inputs dicts, in the order sort_keys=True puts them
KeyOrder == <<"max_tokens", "messages", "model", "temperature">>

DictKeys(d) == {d[i][1] : i \in 1..Len(d)}

DictGet(d, k) == d[CHOOSE i \in 1..Len(d) : d[i][1] = k][2]

SortedKeys(d) == SelectSeq(KeyOrder, LAMBDA k : k \in DictKeys(d))

\* json.dumps(inputs, sort_keys=True, separators=(',', ':'))
JsonDumpsSorted(d) ==
    [j \in 1..Len(SortedKeys(d)) |-> <<SortedKeys(d)[j], DictGet(d, SortedKeys(d)[j])>>]

\* the key computed from the items in insertion order, without sort_keys
CacheKeyUnsorted(model, inputs) == <<"sha256", model, inputs>>

\* ModelCallCache._compute_cache_key
CacheKey(model, inputs) == <<"sha256", model, JsonDumpsSorted(inputs)>>

CallRecord(model, inputs, outputs, hit) ==
    [model |-> model, inputs |-> inputs, outputs |-> outputs, cache_hit |-> hit]

\* ModelCallCache.get_cached_result: [cache, ret], ret = <<>> for None
GetCachedResult(c, model, inputs) ==
    IF CacheKey(model, inputs) \in DOMAIN c.entries
    THEN [cache |-> [c EXCEPT !.call_log =
                        Append(@, CallRecord(model, inputs,
                                             c.entries[CacheKey(model, inputs)], TRUE))],
          ret   |-> <<c.entries[CacheKey(model, inputs)]>>]
    ELSE [cache |-> c, ret |-> <<>>]

\* ModelCallCache.store_result
StoreResult(c, model, inputs, outputs) ==
    [entries  |-> [k \in DOMAIN c.entries \cup {CacheKey(model, inputs)} |->
                     IF k = CacheKey(model, inputs) THEN outputs ELSE c.entries[k]],
     call_log |-> Append(c.call_log, CallRecord(model, inputs, outputs, FALSE))]

\* ModelCallCache.get_cache_stats()["recent_calls"]: the last 10 of the last 100 lines
RecentCalls(c) ==
    SubSeq(c.call_log, IF Len(c.call_log) > 10 THEN Len(c.call_log) - 9 ELSE 1, Len(c.call_log))

\* ReplayGate.check_model_call after the cache lookup r (replay mode)
CheckCached(g, r, model, inputs) ==
    IF r.ret = <<>>
    THEN [gate |-> g, cache |-> r.cache, allowed |-> FALSE, result |-> <<>>]
    ELSE [gate |-> [g EXCEPT !.actual_calls =
                       Append(@, CallRecord(model, inputs, r.ret[1], TRUE))],
          cache |-> r.cache, allowed |-> TRUE, result |-> r.ret]

\* a gate that looks the call up in the cache in either mode
CheckModelCallAlwaysCached(g, c, model, inputs) ==
    CheckCached(g, GetCachedResult(c, model, inputs), model, inputs)

\* ReplayGate.check_model_call: (is_allowed, cached_result)
CheckModelCall(g, c, model, inputs) ==
    IF ~g.replay_mode
    THEN [gate |-> g, cache |-> c, allowed |-> TRUE, result |-> <<>>]
    ELSE CheckCached(g, GetCachedResult(c, model, inputs), model, inputs)

\* ReplayGate.record_successful_run: the side log afterwards
RecordedCall(call) ==
    [model |-> call.model, inputs |-> call.inputs, expected_outputs |-> call.outputs]

RECURSIVE RecordedCalls(_)
RecordedCalls(calls) ==
    IF calls = <<>> THEN <<>>
    ELSE IF Head(calls).cache_hit THEN RecordedCalls(Tail(calls))
    ELSE <<RecordedCall(Head(calls))>> \o RecordedCalls(Tail(calls))

RecordSuccessfulRun(g, c, sl) ==
    IF g.replay_mode THEN sl
    ELSE IF RecentCalls(c) = <<>> THEN sl
    ELSE [exists |-> TRUE, model_calls |-> RecordedCalls(RecentCalls(c))]

\* ReplayGate.enable_replay_mode
EnableReplayMode(g, calls) ==
    [g EXCEPT !.replay_mode = TRUE, !.expected_calls = calls, !.actual_calls = <<>>]

\* ReplayGate.load_run_for_replay
LoadRunForReplay(g, sl) ==
    IF ~sl.exists THEN g
    ELSE IF sl.model_calls = <<>> THEN g
    ELSE EnableReplayMode(g, sl.model_calls)

\* ReplayGate.verify_replay_completeness: TRUE when the list of issues is empty
VerifyReplayCompleteness(g) ==
    IF ~g.replay_mode THEN TRUE
    ELSE /\ Len(g.actual_calls) = Len(g.expected_calls)
         /\ \A i \in 1..Len(g.expected_calls) :
               i <= Len(g.actual_calls) /\ g.actual_calls[i].model = g.expected_calls[i].model

\* plan_workflow: from response_text to the returned plan; text without JSON raises
\* ValueError, which the except clause turns into the fallback plan
ParsePlan(o, text) ==
    IF text = "junk" THEN [o EXCEPT !.result = "fallback", !.text = ""]
    ELSE [o EXCEPT !.result = "llm", !.text = text]

\* plan_workflow, else branch: client.messages.create and cache.store_result
CallBackend(o, c, inputs, response) ==
    IF response = "error"
    THEN [cache |-> c, plan |-> [o EXCEPT !.backend = TRUE, !.result = "fallback"]]
    ELSE [cache |-> StoreResult(c, ModelId, inputs, [response_text |-> response]),
          plan  |-> ParsePlan([o EXCEPT !.backend = TRUE], response)]

\* plan_workflow after check_model_call returned chk
PlanAfterCheck(o, chk, inputs, response) ==
    IF ~chk.allowed
    THEN [gate |-> chk.gate, cache |-> chk.cache, plan |-> [o EXCEPT !.result = "fallback"]]
    ELSE IF chk.result # <<>>
    THEN [gate |-> chk.gate, cache |-> chk.cache,
          plan |-> ParsePlan(o, chk.result[1].response_text)]
    ELSE [gate |-> chk.gate] @@ CallBackend(o, chk.cache, inputs, response)

\* LLMPlanner.plan_workflow(goal): [gate, cache, plan]
PlanWorkflowOn(g, c, inputs, response) ==
    PlanAfterCheck([NoPlan EXCEPT !.some = TRUE, !.replay = g.replay_mode,
                                  !.cached = CacheKey(ModelId, inputs) \in DOMAIN c.entries],
                   CheckModelCall(g, c, ModelId, inputs), inputs, response)

VmVars == <<files, dirs, policyFile, txlog, vm, now, ev, snap, req, chg, undo>>

\* LLMPlanner.__init__
PlannerInit ==
    /\ ~gate.built
    /\ gate' = NewGate
    /\ look' = [look EXCEPT !.op = "none"]
    /\ UNCHANGED <<VmVars, runs, pkg, rep, pureVars, past, modes, real, peer, split, earlier, cache, sidelog, plan>>

PlanWorkflow ==
    /\ gate.built /\ Len(cache.call_log) < MaxCalls
    /\ \E goal \in Goals, response \in Responses :
          /\ gate' = PlanWorkflowOn(gate, cache, ModelInputs(goal), response).gate
          /\ cache' = PlanWorkflowOn(gate, cache, ModelInputs(goal), response).cache
          /\ plan' = PlanWorkflowOn(gate, cache, ModelInputs(goal), response).plan
    /\ look' = [look EXCEPT !.op = "none"]
    /\ UNCHANGED <<VmVars, runs, pkg, rep, pureVars, past, modes, real, peer, split, earlier, sidelog>>

RecordRun ==
    /\ gate.built
    /\ sidelog' = RecordSuccessfulRun(gate, cache, sidelog)
    /\ look' = [look EXCEPT !.op = "record"]
    /\ UNCHANGED <<VmVars, runs, pkg, rep, pureVars, past, modes, real, peer, split, earlier, gate, cache, plan>>

LoadRun ==
    /\ gate.built
    /\ gate' = LoadRunForReplay(gate, sidelog)
    /\ look' = [look EXCEPT !.op = "load"]
    /\ UNCHANGED <<VmVars, runs, pkg, rep, pureVars, past, modes, real, peer, split, earlier, cache, sidelog, plan>>

\* ReplayGate.disable_replay_mode
DisableReplay ==
    /\ gate.built /\ gate.replay_mode
    /\ gate' = NewGate
    /\ look' = [look EXCEPT !.op = "none"]
    /\ UNCHANGED <<VmVars, runs, pkg, rep, pureVars, past, modes, real, peer, split, earlier, cache, sidelog, plan>>

NextGate == PlannerInit \/ PlanWorkflow \/ RecordRun \/ LoadRun \/ DisableReplay

SpecGate == Init /\ [][NextGate]_vars

\* a run begins: a new process builds its planner, and with it a new gate, over the cache
\* and the logs that earlier runs have left in the sandbox
BeginRun ==
    /\ gate' = NewGate
    /\ look' = [look EXCEPT !.op = "begin", !.from = Len(cache.call_log)]
    /\ UNCHANGED <<VmVars, runs, pkg, rep, pureVars, past, modes, real, peer, split, earlier, cache, sidelog, plan>>

NextRecord == BeginRun \/ PlanWorkflow \/ RecordRun \/ LoadRun

SpecRecord == Init /\ [][NextRecord]_vars

-----------------------------------------------------------------------------
(* Calls made directly on the cache and on the gate                        *)
(* (aiox/kernel/model_cache.py, aiox/kernel/replay_gate.py)                *)

CacheModels == {ModelId, "gpt-4"}

\* model_inputs for g1, the same mapping built in another key order, and model_inputs for g2
InputDicts ==
    {ModelInputs("g1"),
     << <<"messages", "g1">>, <<"temperature", "0.1">>, <<"model", ModelId>>,
        <<"max_tokens", "2000">> >>,
     ModelInputs("g2")}

OutputDicts == {[response_text |-> "plan"], [response_text |-> "junk"]}

\* an inputs dict as a mapping: its items, whatever their order
AsMapping(d) == {d[i] : i \in 1..Len(d)}

\* what the calls so far have stored, by model and mapping: st with one more store
Remember(st, model, inputs, outputs) ==
    [k \in DOMAIN st \cup {<<model, AsMapping(inputs)>>} |->
        IF k = <<model, AsMapping(inputs)>> THEN outputs ELSE st[k]]

\* ModelCallCache.clear_cache: the cache directory and the call log are emptied
ClearCache(c) == NoCache

CacheRest == <<VmVars, runs, pkg, rep, pureVars, past, modes, real, peer, split, earlier, sidelog, plan>>

\* cache.store_result(model, inputs, outputs, latency_ms)
CacheStore ==
    /\ Len(cache.call_log) < MaxCalls
    /\ \E model \in CacheModels, inputs \in InputDicts, outputs \in OutputDicts :
          /\ cache' = StoreResult(cache, model, inputs, outputs)
          /\ look' = [NoLook EXCEPT !.op = "store", !.model = model, !.inputs = inputs,
                                    !.outputs = outputs,
                                    !.stored = Remember(look.stored, model, inputs, outputs)]
    /\ UNCHANGED <<CacheRest, gate>>

\* cache.get_cached_result(model, inputs)
CacheGet ==
    /\ Len(cache.call_log) < MaxCalls
    /\ \E model \in CacheModels, inputs \in InputDicts :
          /\ cache' = GetCachedResult(cache, model, inputs).cache
          /\ look' = [NoLook EXCEPT !.op = "get", !.model = model, !.inputs = inputs,
                                    !.result = GetCachedResult(cache, model, inputs).ret,
                                    !.stored = look.stored]
    /\ UNCHANGED <<CacheRest, gate>>

\* cache.clear_cache()
CacheClear ==
    /\ cache' = ClearCache(cache)
    /\ look' = [NoLook EXCEPT !.op = "clear"]
    /\ UNCHANGED <<CacheRest, gate>>

\* gate.check_model_call(model, inputs)
GateCheck ==
    /\ gate.built /\ Len(cache.call_log) < MaxCalls /\ Len(gate.actual_calls) < MaxCalls
    /\ \E model \in CacheModels, inputs \in InputDicts :
          /\ gate' = CheckModelCall(gate, cache, model, inputs).gate
          /\ cache' = CheckModelCall(gate, cache, model, inputs).cache
          /\ look' = [NoLook EXCEPT !.op = "check", !.model = model, !.inputs = inputs,
                                    !.allowed = CheckModelCall(gate, cache, model, inputs).allowed,
                                    !.result = CheckModelCall(gate, cache, model, inputs).result,
                                    !.stored = look.stored]
    /\ UNCHANGED CacheRest

NextCache == CacheStore \/ CacheGet \/ CacheClear

SpecCache == Init /\ [][NextCache]_vars

-----------------------------------------------------------------------------
(* The run, pack and replay commands on one sandbox                        *)
(* (aiox/cli.py, aiox/kernel/packaging.py, aiox/kernel/replay.py)          *)

MaxRuns == 2        \* run commands per behaviour

\* CALL_TOOL emit_report with schema and metrics taken from slot S0
IToolEmitSlot == [IToolEmit EXCEPT !.ins = [k \in {"schema", "metrics", "output_path"} |->
                                             IF k = "output_path" THEN Str(ReportPath)
                                             ELSE Str(S0)]]

\* the bytecode files the run command is given
RunPrograms == {<<>>, <<IReadCsv, IEmitReport>>, <<IToolEmit>>, <<IReadCsv, IBuildCli>>,
                <<IGuardFail>>, <<IBuildCli>>, <<IEmitReport>>, <<IToolEmitSlot>>,
                <<IReadCsv, IToolEmitSlot>>}

UnderOut(fs) == {q \in DOMAIN fs.files : ProperlyUnder(q, OutP)}

\* the files under out/ with their bytes
OutContents(fs) == [q \in UnderOut(fs) |-> fs.files[q]]

\* compute_out_checksums(sandbox_root)
ComputeOutChecksums(fs) ==
    IF OutP \in fs.dirs THEN [q \in UnderOut(fs) |-> Sha256(fs.files[q])] ELSE EmptyFn

\* replay_aiox: shutil.rmtree(out_dir); out_dir.mkdir(), when out_dir exists
CleanOutDir(fs) ==
    IF OutP \in fs.dirs
    THEN [files |-> [q \in DOMAIN fs.files \ UnderOut(fs) |-> fs.files[q]],
          dirs  |-> {d \in fs.dirs : ~ProperlyUnder(d, OutP)}]
    ELSE fs

\* make_aiox: the bytecode and the parsed out/checksums.json the package embeds
MakeAiox(prog, allowed, fs) ==
    [some |-> TRUE, prog |-> prog, allowed |-> allowed,
     checks |-> IF Append(OutP, ChecksumsName) \in DOMAIN fs.files
                THEN fs.files[Append(OutP, ChecksumsName)].v
                ELSE [run_id |-> -1, checksums |-> EmptyFn]]

\* a comparison that reports changed files only
ReplayDiffsNoMissing(prev, cur) ==
    {<<k, "hash-mismatch">> : k \in {x \in DOMAIN prev \cap DOMAIN cur : cur[x] # prev[x]}}

\* replay_aiox: the diff list, as the set of (key, kind) pairs
ReplayDiffs(prev, cur) ==
    {<<k, "missing-now">> : k \in DOMAIN prev \ DOMAIN cur}
      \cup {<<k, "hash-mismatch">> : k \in {x \in DOMAIN prev \cap DOMAIN cur : cur[x] # prev[x]}}

\* cmd_replay: the exit code for what replay_aiox returned
CmdReplay(ok) == IF ok THEN 0 ELSE 2

\* the exit code of a command that ends in an uncaught exception
UncaughtExit == 1

Fs == [files |-> files, dirs |-> dirs]

Idle == (~vm.built \/ Stopped) /\ rep.phase # "running"

\* the run command: run_bytecode(bytecode, sandbox_root, dry_run=False, auto_yes=True)
Launch ==
    /\ Idle /\ runs < MaxRuns
    /\ \E prog \in RunPrograms :
          Commit(VmInit(M, prog, {"fs.read", "fs.write"}, FALSE, TRUE, now + 1))
    /\ now' = now + 1
    /\ snap' = Fs
    /\ runs' = runs + 1
    /\ UNCHANGED <<undo, pkg, rep, earlier, gateVars, pureVars, moreVars>>

\* the output directory is emptied by hand between two commands
CleanOut ==
    /\ Idle /\ UnderOut(Fs) # {}
    /\ files' = CleanOutDir(Fs).files
    /\ dirs' = CleanOutDir(Fs).dirs
    /\ earlier' = [some   |-> vm.built /\ vm.state = "DONE" /\ ~vm.dry /\ UnderOut(snap) = {},
                prog   |-> vm.prog,
                run_id |-> vm.run_id,
                inputs |-> snap.files,
                out    |-> OutContents(Fs)]
    /\ UNCHANGED <<policyFile, txlog, vm, now, ev, snap, req, chg, undo, runs, pkg, rep, gateVars,
                   pureVars, moreVars>>

\* the pack command, on the plan and bytecode of the last run
Pack ==
    /\ vm.built /\ Stopped /\ rep.phase = "none" /\ ~pkg.some
    /\ pkg' = [of_run |-> vm.run_id,
               of_done |-> vm.state = "DONE" /\ ~vm.dry,
               start |-> UnderOut(snap)] @@ MakeAiox(vm.prog, vm.allowed, Fs)
    /\ UNCHANGED <<files, dirs, policyFile, txlog, vm, now, ev, snap, req, chg, undo, runs, rep,
                   earlier, gateVars, pureVars, moreVars>>

\* replay_aiox up to the construction of the VM (clean_out=True, auto_yes=True)
ReplayBegin ==
    /\ pkg.some /\ Idle /\ rep.phase = "none"
    /\ Commit(VmInit([M EXCEPT !.files = CleanOutDir(Fs).files, !.dirs = CleanOutDir(Fs).dirs],
                     pkg.prog, pkg.allowed, FALSE, TRUE, now + 1))
    /\ now' = now + 1
    /\ snap' = CleanOutDir(Fs)
    /\ rep' = [NoRep EXCEPT !.phase = "running"]
    /\ UNCHANGED <<undo, runs, pkg, earlier, gateVars, pureVars, moreVars>>

\* replay_aiox from the return of run_bytecode; an exception of the run propagates
ReplayCompare ==
    /\ rep.phase = "running" /\ Stopped
    /\ rep' = IF vm.state = "DONE"
              THEN [phase |-> "done",
                    ok |-> ReplayDiffs(pkg.checks.checksums, ComputeOutChecksums(Fs)) = {},
                    diffs |-> ReplayDiffs(pkg.checks.checksums, ComputeOutChecksums(Fs)),
                    code |-> CmdReplay(ReplayDiffs(pkg.checks.checksums,
                                                   ComputeOutChecksums(Fs)) = {})]
              ELSE [NoRep EXCEPT !.phase = "raised", !.code = UncaughtExit]
    /\ UNCHANGED <<files, dirs, policyFile, txlog, vm, now, ev, snap, req, chg, undo, runs, pkg,
                   earlier, gateVars, pureVars, moreVars>>

NextRuns == Launch \/ RunStart \/ Step \/ RunEnd \/ CleanOut \/ Pack \/ ReplayBegin
              \/ ReplayCompare \/ (Idle /\ (PlannerInit \/ LoadRun \/ DisableReplay))

\* the side log and cache a recorded run with one model call has left
InitRuns ==
    /\ InitSandbox
    /\ gate = NoGate
    /\ cache = StoreResult(NoCache, ModelId, ModelInputs("g1"), [response_text |-> "plan"])
    /\ sidelog = RecordSuccessfulRun(NewGate, cache, NoSideLog)
    /\ plan = NoPlan

SpecRuns == InitRuns /\ [][NextRuns]_vars

\* programs of the run command, one of them with logs/tx.jsonl as its report path
LoggedPrograms == {<<IReadCsv, IEmitReport>>, <<IReadCsv, IEmitLog>>}

\* the run command, dry or not: run_bytecode(bytecode, sandbox_root, dry_run, auto_yes=True)
LaunchLogged ==
    /\ Idle /\ runs < MaxRuns
    /\ \E prog \in LoggedPrograms, dry \in BOOLEAN :
          Commit(VmInit(M, prog, {"fs.read", "fs.write"}, dry, TRUE, now + 1))
    /\ now' = now + 1
    /\ snap' = Fs
    /\ runs' = runs + 1
    /\ UNCHANGED <<undo, pkg, rep, earlier, gateVars, pureVars, moreVars>>

\* run, dry run, pack, replay and undo on one sandbox
NextLogged ==
    LaunchLogged \/ RunStart \/ Step \/ RunEnd \/ Pack \/ ReplayBegin \/ ReplayCompare
      \/ (rep.phase # "running" /\ Undo)

SpecLogged == InitRuns /\ [][NextLogged]_vars

\* a planner's gate over the cache and the side log that a recorded run has left
NextCalls == PlannerInit \/ LoadRun \/ DisableReplay \/ GateCheck \/ CacheStore

SpecCalls == InitRuns /\ [][NextCalls]_vars

-----------------------------------------------------------------------------
(* One program run twice from the same sandbox state: once dry, once real  *)

RECURSIVE RunLoop(_, _, _, _)
\* VM.run from the top of the while loop to its return or its exception
RunLoop(m, ans, ms, rc) ==
    IF Failed(m) THEN m
    ELSE IF m.vm.pc = Len(m.vm.prog) THEN RunEpilogue(m)
    ELSE RunLoop(Exec(m, m.vm.prog[m.vm.pc + 1], ans, ms, rc), ans, ms, rc)

\* run_bytecode(bytecode, sandbox_root, dry_run, auto_yes): VM(...).run()
RunBytecode(m, prog, allowed, dry, auto, t, ans, ms, rc) ==
    RunLoop(TxWrite([VmInit(m, prog, allowed, dry, auto, t) EXCEPT !.vm.state = "RUN"],
                    "RUN_START", <<>>, <<>>, FALSE, "absent", NoHash, ""),
            ans, ms, rc)

\* what is kept of a finished run: its log lines, where it stopped, and how
RunSummary(m) == [log |-> m.log, pc |-> m.vm.pc, err |-> m.vm.err]

DryAndReal ==
    /\ ~pair.some
    /\ \E prog \in Programs, allowed \in DeclaredSets, auto \in BOOLEAN, ans \in Answers :
       \E ms \in (IF \E i \in 1..Len(prog) : Spawns(prog[i]) THEN CpuTimes ELSE {0}) :
       \E rc \in (IF \E i \in 1..Len(prog) : Spawns(prog[i]) THEN RetCodes ELSE {0}) :
          pair' = [some |-> TRUE, prog |-> prog,
                   dry  |-> RunSummary(RunBytecode(M, prog, allowed, TRUE, auto, now + 1,
                                                   ans, ms, rc)),
                   real |-> RunSummary(RunBytecode(M, prog, allowed, FALSE, auto, now + 1,
                                                   ans, ms, rc))]
    /\ UNCHANGED <<VmVars, runs, pkg, rep, earlier, gateVars, comp, moreVars>>

NextPair == DryAndReal

SpecPair == Init /\ [][NextPair]_vars

-----------------------------------------------------------------------------
(* Successive VMs on one sandbox, with any declaration, auto-grant setting  *)
(* and operator answers: what policy.json carries from one to the next      *)

PolicyPrograms == {<<IReadCsv>>, <<IReadCsv, IEmitReport>>}

\* run_bytecode(bytecode, sandbox_root, dry_run, auto_yes), after the previous VM ended
LaunchAgain ==
    /\ (~vm.built \/ Stopped) /\ runs < MaxRuns
    /\ \E prog \in PolicyPrograms, allowed \in DeclaredSets, dry \in BOOLEAN, auto \in BOOLEAN :
          Commit(VmInit(M, prog, allowed, dry, auto, now + 1))
    /\ now' = now + 1
    /\ snap' = Fs
    /\ runs' = runs + 1
    /\ past' = past \cup {<<vm.app_id, c>> : c \in vm.granted}
    /\ UNCHANGED <<undo, pkg, rep, earlier, gateVars, pureVars, look, modes, real, peer, split>>

NextPolicy == LaunchAgain \/ RunStart \/ Step \/ RunEnd

SpecPolicy == Init /\ [][NextPolicy]_vars

-----------------------------------------------------------------------------
(* SPLIT: the opcode and the split tool, one algorithm                      *)
(* (aiox/kernel/runtime.py, tools/data/split/impl.py)                       *)

MaxRows == 3        \* rows of a table

\* seeds: the tool's default, and two whose first row hashes to 255 and to 0
Seeds == {1337, 67, 502}
\* ratios in tenths: 0.0, 0.5, 0.8 (the tool's default) and 1.0
Tenths == {0, 5, 8, 10}

\* hashlib.md5(f"{i}:{seed}".encode()).digest()[0], for i = 0..3
Md5Byte(i, seed) ==
    IF seed = 1337 THEN <<92, 195, 17, 82>>[i + 1]
    ELSE IF seed = 67 THEN <<255, 225, 245, 48>>[i + 1]
    ELSE <<0, 106, 39, 152>>[i + 1]

\* (h / 255.0) < ratio
InTrain(i, seed, tenths) == Md5Byte(i, seed) * 10 < 255 * tenths

RECURSIVE SplitFrom(_, _, _, _, _)
\* for i, r in enumerate(rows): (tr if ... else va).append(r)
SplitFrom(rows, i, tenths, seed, acc) ==
    IF i = Len(rows) THEN acc
    ELSE SplitFrom(rows, i + 1, tenths, seed,
                   IF InTrain(i, seed, tenths) THEN [acc EXCEPT !.train = Append(@, rows[i + 1])]
                   ELSE [acc EXCEPT !.val = Append(@, rows[i + 1])])

\* if len(va) == 0 and len(tr) > 1: va.append(tr.pop())
EnsureVal(s) ==
    IF Len(s.val) = 0 /\ Len(s.train) > 1
    THEN [train |-> SubSeq(s.train, 1, Len(s.train) - 1), val |-> <<s.train[Len(s.train)]>>]
    ELSE s

\* the SPLIT branch of VM.run, and execute() of the split tool: [train, val]
SplitRows(rows, tenths, seed) ==
    EnsureVal(SplitFrom(rows, 0, tenths, seed, [train |-> <<>>, val |-> <<>>]))

\* tables of up to MaxRows rows; a row is its position in the table and its cells
Tables ==
    UNION {{[i \in 1..n |-> [at |-> i - 1, cells |-> f[i]]] : f \in [1..n -> {"x", "y"}]}
             : n \in 0..MaxRows}

DoSplit ==
    /\ \E rows \in Tables, tenths \in Tenths, seed \in Seeds :
          split' = [some |-> TRUE, rows |-> rows, tenths |-> tenths, seed |-> seed,
                    train |-> SplitRows(rows, tenths, seed).train,
                    val |-> SplitRows(rows, tenths, seed).val]
    /\ UNCHANGED <<files, dirs, policyFile, txlog, vm, now, ev, snap, req, chg, undo, runs, pkg,
                   rep, earlier, gateVars, pureVars, past, look, modes, real, peer>>

NextSplit == DoSplit

SpecSplit == Init /\ [][NextSplit]_vars

-----------------------------------------------------------------------------
(* Two VM instances on one sandbox, each with its own PolicyStore over the  *)
(* same policy.json (aiox/kernel/runtime.py)                                *)

PeerPrograms == {<<IEmitReport>>}

Alive(v) == v.built /\ ~(v.state = "DONE" \/ v.err # NoErr)

\* run_bytecode(...) while the other instance may be alive
LaunchShared ==
    /\ (~vm.built \/ Stopped) /\ runs < MaxRuns
    /\ \E prog \in PolicyPrograms, allowed \in DeclaredSets, auto \in BOOLEAN :
          Commit(VmInit(M, prog, allowed, FALSE, auto, now + 1))
    /\ now' = now + 1
    /\ snap' = Fs
    /\ runs' = runs + 1
    /\ peer' = [peer EXCEPT !.overlapped = IF peer.vm.built /\ ~peer.ended
                                           THEN {"vm", "peer"} ELSE @ \ {"vm"}]
    /\ UNCHANGED <<undo, pkg, rep, earlier, gateVars, pureVars, past, look, modes, real, split>>

\* VM.__init__ of the second instance: PolicyStore.__init__ and Quotas.__init__
PeerInit ==
    /\ ~peer.vm.built
    /\ \E prog \in PeerPrograms :
          /\ peer' = [vm |-> VmInit(M, prog, {}, FALSE, FALSE, now + 1).vm, ended |-> FALSE,
                      overlapped |-> IF Alive(vm) THEN {"vm", "peer"}
                                     ELSE peer.overlapped \ {"peer"}]
          /\ policyFile' = VmInit(M, prog, {}, FALSE, FALSE, now + 1).pfile
    /\ now' = now + 1
    /\ UNCHANGED <<files, dirs, txlog, vm, ev, snap, req, chg, undo, runs, pkg, rep, earlier,
                   gateVars, pureVars, past, look, modes, real, split>>

\* CapPolicy.require of the second instance, where the operator answers yes:
\* store.grant(app_id, cap)
PeerGrant ==
    /\ peer.vm.built /\ ~peer.ended
    /\ \E cap \in {"fs.read", "fs.write"} :
          /\ ~IsGranted(peer.vm.data, peer.vm.app_id, cap)
          /\ peer' = [peer EXCEPT !.vm = PolicyGrant([M EXCEPT !.vm = peer.vm], cap).vm]
          /\ policyFile' = PolicyGrant([M EXCEPT !.vm = peer.vm], cap).pfile
    /\ UNCHANGED <<files, dirs, txlog, vm, now, ev, snap, req, chg, undo, runs, pkg, rep,
                   earlier, gateVars, pureVars, past, look, modes, real, split>>

\* the second instance's run returns
PeerEnd ==
    /\ peer.vm.built /\ ~peer.ended
    /\ peer' = [peer EXCEPT !.ended = TRUE]
    /\ UNCHANGED <<files, dirs, policyFile, txlog, vm, now, ev, snap, req, chg, undo, runs, pkg,
                   rep, earlier, gateVars, pureVars, past, look, modes, real, split>>

NextShared ==
    LaunchShared \/ RunStart \/ Step \/ RunEnd \/ PeerInit \/ PeerGrant \/ PeerEnd

SpecShared == Init /\ [][NextShared]_vars

-----------------------------------------------------------------------------
(* Real runs and dry runs on one sandbox, and the undo command after them   *)
(* (aiox/cli.py, aiox/kernel/runtime.py, aiox/kernel/undo.py)               *)

UndoPrograms == {<<IReadCsv, IEmitReport>>, <<IReadCsv, IBuildCli>>}

\* the last non-dry run so far, once the run that follows it is launched
RealSoFar(dry, rid) ==
    IF ~dry THEN [NoReal EXCEPT !.some = TRUE, !.run_id = rid, !.before = Fs]
    ELSE IF real.some /\ ~real.ended THEN [real EXCEPT !.ended = TRUE, !.after = Fs]
    ELSE real

\* the run command: run_bytecode(bytecode, sandbox_root, dry_run, auto_yes=True)
LaunchRun ==
    /\ (~vm.built \/ Stopped) /\ runs < MaxRuns
    /\ \E prog \in UndoPrograms, dry \in BOOLEAN :
          /\ Commit(VmInit(M, prog, {"fs.read", "fs.write"}, dry, TRUE, now + 1))
          /\ real' = RealSoFar(dry, now + 1)
    /\ now' = now + 1
    /\ snap' = Fs
    /\ runs' = runs + 1
    /\ UNCHANGED <<undo, pkg, rep, earlier, gateVars, pureVars, past, look, modes, peer, split>>

NextUndo == LaunchRun \/ RunStart \/ Step \/ RunEnd \/ Undo

SpecUndo == Init /\ [][NextUndo]_vars

-----------------------------------------------------------------------------
(* Guards: READ_CSV, PROFILE, a guard on the schema, then EMIT_REPORT, as   *)
(* typed opcodes and as the CALL_TOOL instructions convert_to_tool_calls    *)
(* makes of them                                                            *)

IProfile == [NoIns EXCEPT !.op = "PROFILE", !.s1 = S0, !.out = S1]
IToolProfile == [NoIns EXCEPT !.op = "CALL_TOOL", !.tool = "profile",
                   !.ins = [k \in {"table"} |-> Str(S0)],
                   !.outs = [k \in {"schema"} |-> S1]]

IGuard(field, thr) == [NoIns EXCEPT !.op = "ASSERT_GE", !.s1 = S1, !.field = field, !.thr = thr]
IToolGuard(field, thr) ==
    [NoIns EXCEPT !.op = "CALL_TOOL", !.tool = "assert_ge",
                  !.ins = [k \in {"metrics", "field", "threshold"} |->
                             IF k = "metrics" THEN Str(S1)
                             ELSE IF k = "field" THEN Str(FieldChars(field)) ELSE Lit(thr)]]

\* thresholds around the two data rows of the input file, and float("-inf")
GuardCases == FieldNames \X {Len(CsvData.v), Len(CsvData.v) + 1, NegInf}

GuardPrograms ==
    {<<IReadCsv, IProfile, IGuard(g[1], g[2]), IEmitReport>> : g \in GuardCases}
      \cup {<<IToolReadCsv, IToolProfile, IToolGuard(g[1], g[2]), IToolEmitSlot>> :
              g \in GuardCases}

LaunchGuard ==
    /\ ~vm.built
    /\ \E prog \in GuardPrograms, allowed \in DeclaredSets, auto \in BOOLEAN :
          Commit(VmInit(M, prog, allowed, FALSE, auto, now + 1))
    /\ now' = now + 1
    /\ snap' = Fs
    /\ UNCHANGED <<undo, sessVars>>

NextGuard == LaunchGuard \/ RunStart \/ Step \/ RunEnd

SpecGuard == Init /\ [][NextGuard]_vars

-----------------------------------------------------------------------------
(* The compiler: compile_plan_file (aiox/compiler/compile_bc.py)           *)

MaxSteps == 3       \* longest plan

Digits == <<"0", "1", "2", "3", "4", "5", "6", "7", "8", "9">>
\* f"S{n}"
SlotReg(n) == <<"S", Digits[n + 1]>>

\* DOT.match(dollar_name): "$name" or "$name.field"
DotMatch(ref) == Len(ref) >= 2 /\ ref[1] = "$" /\ ref[2] \notin {"$", "."}

RECURSIVE TakeName(_)
TakeName(s) == IF s = <<>> \/ Head(s) = "." THEN <<>> ELSE <<Head(s)>> \o TakeName(Tail(s))

\* m.group("name")
BaseName(ref) == TakeName(Tail(ref))

\* a table of names in allocation order (Symtab._order); the i-th name holds S(i-1)
Known(st, name) == \E i \in 1..Len(st) : st[i] = name
AllocName(st, name) == IF Known(st, name) THEN st ELSE Append(st, name)
RegOfName(st, name) == SlotReg((CHOOSE i \in 1..Len(st) : st[i] = name) - 1)

\* Symtab.slot_of(dollar_name): the table afterwards, and the register returned
Alloc(st, ref) == AllocName(st, BaseName(ref))
RegOf(st, ref) == RegOfName(st, BaseName(ref))

\* the state of lower_steps: the Symtab, the program so far, the exception raised
CompFail(c, why) == [c EXCEPT !.err = why]
Push(c, st, instr) == [c EXCEPT !.st = st, !.prog = Append(@, instr)]

\* lower_guard(cond, st); cond is the parsed condition, .match says whether COND matched
LowerGuard(c, cond) ==
    IF ~cond.match THEN CompFail(c, "ValueError")
    ELSE Push(c, AllocName(c.st, cond.slot),
              [NoIns EXCEPT !.op = "ASSERT_GE",
                            !.s1 = RegOfName(AllocName(c.st, cond.slot), cond.slot),
                            !.field = FieldKey(cond.field),
                            !.thr = IF cond.op = ">=" THEN cond.rhs ELSE NegInf])

\* lower_steps: the body of the loop over plan["steps"]
LowerStep(c, step, use_tools) ==
    IF c.err # "none" THEN c
    ELSE CASE step.op = "load_csv" ->
                IF ~DotMatch(step.out) THEN CompFail(c, "ValueError")
                ELSE Push(c, Alloc(c.st, step.out),
                          [NoIns EXCEPT !.op = "READ_CSV", !.p1 = step.in,
                                        !.out = RegOf(Alloc(c.st, step.out), step.out)])
           [] step.op = "profile_schema" ->
                IF ~DotMatch(step.in) \/ ~DotMatch(step.out) THEN CompFail(c, "ValueError")
                ELSE Push(c, Alloc(Alloc(c.st, step.in), step.out),
                          [NoIns EXCEPT !.op = "PROFILE",
                                        !.s1 = RegOf(Alloc(c.st, step.in), step.in),
                                        !.out = RegOf(Alloc(Alloc(c.st, step.in), step.out),
                                                      step.out)])
           [] step.op = "emit_report" ->
                IF DOMAIN step.inmap = {} \/ ~DotMatch(step.inmap["schema"])
                     \/ ~DotMatch(step.inmap["metrics"])
                THEN CompFail(c, "ValueError")
                ELSE Push(c, Alloc(Alloc(c.st, step.inmap["schema"]), step.inmap["metrics"]),
                          [NoIns EXCEPT !.op = "EMIT_REPORT",
                                        !.s1 = RegOf(Alloc(c.st, step.inmap["schema"]),
                                                     step.inmap["schema"]),
                                        !.s2 = RegOf(Alloc(Alloc(c.st, step.inmap["schema"]),
                                                           step.inmap["metrics"]),
                                                     step.inmap["metrics"]),
                                        !.p1 = step.out])
           [] step.op = "guard" -> LowerGuard(c, step.cond)
           [] OTHER ->
                IF use_tools
                THEN Push(c, c.st, [NoIns EXCEPT !.op = "CALL_TOOL_PLACEHOLDER",
                                                 !.tool = step.op, !.p1 = step.in,
                                                 !.p2 = step.out])
                ELSE CompFail(c, "ValueError")

RECURSIVE LowerFrom(_, _, _, _)
LowerFrom(c, steps, i, use_tools) ==
    IF i > Len(steps) THEN c
    ELSE LowerFrom(LowerStep(c, steps[i], use_tools), steps, i + 1, use_tools)

\* lower_steps(plan, use_tools)
LowerSteps(steps, use_tools) ==
    LowerFrom([st |-> <<>>, prog |-> <<>>, err |-> "none"], steps, 1, use_tools)

\* convert_to_tool_calls, CALL_TOOL_PLACEHOLDER: "$var" operands become slots, keyed by
\* the text after the "$"
PlaceholderIn(slots, instr) ==
    IF instr.p1 # <<>> /\ Head(instr.p1) = "$" THEN AllocName(slots, Tail(instr.p1)) ELSE slots

PlaceholderOut(slots, instr) ==
    IF instr.p2 # <<>> /\ Head(instr.p2) = "$" THEN AllocName(slots, Tail(instr.p2)) ELSE slots

ConvertPlaceholder(k, instr) ==
    [slots |-> PlaceholderOut(PlaceholderIn(k.slots, instr), instr),
     out   |-> Append(k.out,
                 [NoIns EXCEPT
                    !.op = "CALL_TOOL", !.tool = instr.tool,
                    !.ins = [x \in {"input"} |->
                               IF instr.p1 # <<>> /\ Head(instr.p1) = "$"
                               THEN Str(RegOfName(PlaceholderIn(k.slots, instr), Tail(instr.p1)))
                               ELSE Str(instr.p1)],
                    !.outs = IF instr.p2 # <<>> /\ Head(instr.p2) = "$"
                             THEN [x \in {"result"} |->
                                     RegOfName(PlaceholderOut(PlaceholderIn(k.slots, instr),
                                                              instr), Tail(instr.p2))]
                             ELSE EmptyFn])]

\* LEGACY_TO_TOOL
LegacyToTool(op) ==
    CASE op = "READ_CSV" -> "read_csv"
      [] op = "PROFILE" -> "profile"
      [] op = "EMIT_REPORT" -> "emit_report"
      [] op = "ASSERT_GE" -> "assert_ge"
      [] OTHER -> ""

\* convert_to_tool_calls: the inputs and outputs dictionaries of a legacy instruction
LegacyInputs(instr) ==
    CASE instr.op = "READ_CSV" -> [x \in {"path"} |-> Str(instr.p1)]
      [] instr.op = "PROFILE" -> [x \in {"table"} |-> Str(instr.s1)]
      [] instr.op = "EMIT_REPORT" ->
           [x \in {"schema", "metrics", "output_path"} |->
              IF x = "schema" THEN Str(instr.s1)
              ELSE IF x = "metrics" THEN Str(instr.s2) ELSE Str(instr.p1)]
      [] OTHER ->
           [x \in {"metrics", "field", "threshold"} |->
              IF x = "metrics" THEN Str(instr.s1)
              ELSE IF x = "field" THEN Str(FieldChars(instr.field)) ELSE Lit(instr.thr)]

LegacyOutputs(instr) ==
    CASE instr.op = "READ_CSV" -> [x \in {"table"} |-> instr.out]
      [] instr.op = "PROFILE" -> [x \in {"schema"} |-> instr.out]
      [] OTHER -> EmptyFn

ConvertOne(k, instr) ==
    IF instr.op = "CALL_TOOL_PLACEHOLDER" THEN ConvertPlaceholder(k, instr)
    ELSE IF LegacyToTool(instr.op) = "" THEN [k EXCEPT !.out = Append(@, instr)]
    ELSE [k EXCEPT !.out = Append(@, [NoIns EXCEPT !.op = "CALL_TOOL",
                                                   !.tool = LegacyToTool(instr.op),
                                                   !.ins = LegacyInputs(instr),
                                                   !.outs = LegacyOutputs(instr)])]

RECURSIVE ConvertFrom(_, _, _)
ConvertFrom(k, program, i) ==
    IF i > Len(program) THEN k ELSE ConvertFrom(ConvertOne(k, program[i]), program, i + 1)

\* convert_to_tool_calls(program, slots, tools_registry): [slots, out]
ConvertToToolCalls(program, slots) == ConvertFrom([slots |-> slots, out |-> <<>>], program, 1)

\* OPCODES (compiler/opcodes.py)
Opcodes == {"CALL_TOOL", "READ_CSV", "PROFILE", "SPLIT", "TRAIN_LR", "EVAL", "EMIT_REPORT",
            "BUILD_CLI", "ZIP", "VERIFY_ZIP", "VERIFY_CLI", "ASSERT_GE", "WRITE_FILE",
            "WRITE_JSON", "MAKE_DIR"}

\* the capabilities a tool's manifest (tool.json) declares
ToolCaps(tool) ==
    CASE tool \in {"emit_report", "build_cli", "zip"} -> {"fs.write"}
      [] tool \in {"read_csv", "verify_zip"} -> {"fs.read"}
      [] tool = "verify_cli" -> {"proc.spawn"}
      [] OTHER -> {}

\* ToolRegistry.get_all_tool_names: the names of the discovered manifests and "guard"
RegistryNames == ToolNames \cup {"business_insights", "guard"}

\* DynamicAPLSchema._get_all_capabilities
CapEnum == UNION {ToolCaps(t) : t \in RegistryNames}
             \cup {"fs.read", "fs.write", "proc.spawn", "net.get", "ocr.run", "table.extract",
                   "model.call"}

\* the op names of the static schema file (compiler/schema.json)
LegacyOps == {"load_csv", "profile_schema", "split_deterministic", "train_linear",
              "eval_metrics", "emit_report", "build_cli", "bundle_zip", "guard"}

\* the enum of a step's op: the dynamic schema, or the static file when it is given
OpEnum(static) == IF static THEN LegacyOps ELSE RegistryNames

\* Draft202012Validator(schema).validate(plan): capabilities minItems 1 and enum,
\* steps minItems 1, each op in the enum (a guard step of this model always has a cond)
SchemaValid(apl, static) ==
    /\ apl.capabilities # {} /\ apl.capabilities \subseteq CapEnum
    /\ Len(apl.steps) >= 1
    /\ \A i \in 1..Len(apl.steps) : apl.steps[i].op \in OpEnum(static)

\* out_path.write_text(json.dumps(bc)): the file that holds the bytecode envelope
Bytecode(program, capabilities) ==
    [exists |-> TRUE, program |-> program, capabilities |-> capabilities]

\* compile_plan_file after lower_steps returned c: conversion, opcode check, output
EmitBytecode(o, k) ==
    IF \A i \in 1..Len(k.out) : k.out[i].op \in Opcodes
    THEN [o EXCEPT !.ok = TRUE, !.program = k.out, !.slots = k.slots,
                   !.outfile = Bytecode(k.out, o.caps)]
    ELSE [o EXCEPT !.err = "ValueError"]

\* as AfterLowering, but with the output written before the outcome of lowering is looked at
AfterLoweringWritesFirst(o, c, use_tools) ==
    IF c.err # "none" THEN [o EXCEPT !.err = c.err, !.outfile = Bytecode(c.prog, o.caps)]
    ELSE IF use_tools /\ o.static THEN [o EXCEPT !.err = "UnboundLocalError"]
    ELSE IF use_tools THEN EmitBytecode(o, ConvertToToolCalls(c.prog, c.st))
    ELSE EmitBytecode(o, [slots |-> c.st, out |-> c.prog])

\* tools_registry is bound only on the dynamic-schema path
AfterLowering(o, c, use_tools) ==
    IF c.err # "none" THEN [o EXCEPT !.err = c.err]
    ELSE IF use_tools /\ o.static THEN [o EXCEPT !.err = "UnboundLocalError"]
    ELSE IF use_tools THEN EmitBytecode(o, ConvertToToolCalls(c.prog, c.st))
    ELSE EmitBytecode(o, [slots |-> c.st, out |-> c.prog])

\* compile_plan_file(plan_path, out_path, schema_path, use_tools), o the call's inputs
CompileFrom(o) ==
    IF ~SchemaValid([capabilities |-> o.caps, steps |-> o.plan], o.static)
    THEN [o EXCEPT !.err = "ValidationError"]
    ELSE AfterLowering(o, LowerSteps(o.plan, o.use_tools), o.use_tools)

CompilePlanFile(apl, use_tools, static, before) ==
    CompileFrom([NoComp EXCEPT !.some = TRUE, !.plan = apl.steps, !.caps = apl.capabilities,
                               !.use_tools = use_tools, !.static = static,
                               !.before = before, !.outfile = before])

\* plan steps: {id, op, in, out, cond}; inmap is "in" when it is an object
NoCond == [match |-> FALSE, slot |-> <<>>, field |-> <<>>, op |-> "", rhs |-> 0]
NoStep == [op |-> "", in |-> <<>>, inmap |-> EmptyFn, out |-> <<>>, cond |-> NoCond]

RefT == <<"$", "t">>
RefM == <<"$", "m">>

PlanSteps ==
    { [NoStep EXCEPT !.op = "load_csv", !.in = InCsv, !.out = RefT],
      [NoStep EXCEPT !.op = "profile_schema", !.in = RefT, !.out = RefM],
      [NoStep EXCEPT !.op = "profile_schema", !.in = <<"t">>, !.out = RefM],
      [NoStep EXCEPT !.op = "emit_report", !.out = ReportPath,
                     !.inmap = [x \in {"schema", "metrics"} |-> RefM]],
      [NoStep EXCEPT !.op = "guard",
                     !.cond = [match |-> TRUE, slot |-> <<"m">>, field |-> <<"R", "2">>,
                               op |-> ">=", rhs |-> 6]],
      [NoStep EXCEPT !.op = "guard"],
      [NoStep EXCEPT !.op = "business_insights", !.in = RefT, !.out = RefM] }

Plans == UNION {[1..n -> PlanSteps] : n \in 0..MaxSteps}

\* declared capability lists: one capability, two, and one outside the enum
PlanCaps == {{"fs.read"}, {"fs.read", "fs.write"}, {"root"}}

\* what is at out_path before the call: nothing, or an earlier bytecode file
OutFiles0 == {NoFile, Bytecode(<<>>, {})}

Compile ==
    /\ ~comp.some
    /\ \E steps \in Plans, caps \in PlanCaps, use_tools \in BOOLEAN, static \in BOOLEAN,
          before \in OutFiles0 :
          comp' = CompilePlanFile([capabilities |-> caps, steps |-> steps], use_tools, static,
                                  before)
    /\ UNCHANGED <<VmVars, runs, pkg, rep, earlier, gateVars, pair, moreVars>>

NextCompile == Compile

SpecCompile == Init /\ [][NextCompile]_vars

-----------------------------------------------------------------------------
(* One plan lowered to typed opcodes and to CALL_TOOL instructions, and     *)
(* both programs run from the same sandbox state                           *)
(* (aiox/compiler/compile_bc.py, aiox/kernel/runtime.py)                    *)

GuardRows(rhs) ==
    [NoStep EXCEPT !.op = "guard",
                   !.cond = [match |-> TRUE, slot |-> <<"m">>, field |-> FieldChars("rows"),
                             op |-> ">=", rhs |-> rhs]]

\* the plans of PlanSteps and of guards on the row count that are built from the legacy
\* ops and that lower_steps accepts
ModePlans ==
    {steps \in UNION {[1..n -> PlanSteps \cup {GuardRows(2), GuardRows(3)}] : n \in 1..MaxSteps} :
        /\ \A i \in 1..Len(steps) : steps[i].op \in LegacyOps
        /\ steps[1].op = "load_csv"
        /\ LowerSteps(steps, FALSE).err = "none"}

\* program of the legacy-mode bytecode: lower_steps(plan, use_tools=False)
LegacyProgram(steps) == LowerSteps(steps, FALSE).prog

\* program of the tools-mode bytecode: convert_to_tool_calls(lower_steps(plan, True), slots)
ToolsProgram(steps) ==
    ConvertToToolCalls(LowerSteps(steps, TRUE).prog, LowerSteps(steps, TRUE).st).out

\* what is kept of a finished run: where and how it stopped, the slots, the disk, the log
ModeSummary(m) ==
    [pc |-> m.vm.pc, err |-> m.vm.err, mem |-> m.vm.mem, files |-> m.files, dirs |-> m.dirs,
     log |-> m.log]

BothModes ==
    /\ ~modes.some
    /\ \E steps \in ModePlans, allowed \in DeclaredSets :
          modes' = [some |-> TRUE, plan |-> steps,
                    legacy |-> ModeSummary(RunBytecode(M, LegacyProgram(steps), allowed, FALSE,
                                                       TRUE, now + 1, "y", 0, 0)),
                    tools  |-> ModeSummary(RunBytecode(M, ToolsProgram(steps), allowed, FALSE,
                                                       TRUE, now + 1, "y", 0, 0))]
    /\ UNCHANGED <<VmVars, runs, pkg, rep, earlier, gateVars, pureVars, past, look, real, peer, split>>

NextModes == BothModes

SpecModes == Init /\ [][NextModes]_vars

-----------------------------------------------------------------------------
(* Runs of CALL_TOOL programs: the tools-mode programs of plans, and        *)
(* instructions whose outputs map names other ports than the tool returns  *)
(* (aiox/compiler/compile_bc.py, aiox/kernel/runtime.py 634-660)            *)

GuardOn(field, rhs) ==
    [NoStep EXCEPT !.op = "guard",
                   !.cond = [match |-> TRUE, slot |-> <<"m">>, field |-> FieldChars(field),
                             op |-> ">=", rhs |-> rhs]]

\* load_csv, profile_schema, then a guard on a field of the schema or emit_report
ToolPlans ==
    {<<[NoStep EXCEPT !.op = "load_csv", !.in = InCsv, !.out = RefT],
       [NoStep EXCEPT !.op = "profile_schema", !.in = RefT, !.out = RefM], last>> :
        last \in {GuardOn("rows", 2), GuardOn("Score", 0),
                  [NoStep EXCEPT !.op = "emit_report", !.out = ReportPath,
                                 !.inmap = [x \in {"schema", "metrics"} |-> RefM]]}}

\* CALL_TOOL profile as convert_to_tool_calls writes it for a single "$var" output when it
\* has no tool specification: the outputs map names the port "result"
IToolProfileResult == [IToolProfile EXCEPT !.outs = [k \in {"result"} |-> S1]]
\* CALL_TOOL read_csv with an empty outputs map
IToolReadCsvNoOut == [IToolReadCsv EXCEPT !.outs = EmptyFn]

ToolPrograms ==
    {ToolsProgram(steps) : steps \in ToolPlans}
      \cup {<<IToolReadCsv, IToolProfileResult>>, <<IToolReadCsv, IToolReadCsvNoOut>>}

\* the run command on a CALL_TOOL program (auto_yes=True)
LaunchTools ==
    /\ ~vm.built
    /\ \E prog \in ToolPrograms, dry \in BOOLEAN :
          Commit(VmInit(M, prog, {"fs.read", "fs.write"}, dry, TRUE, now + 1))
    /\ now' = now + 1
    /\ snap' = Fs
    /\ UNCHANGED <<undo, sessVars>>

NextTools == LaunchTools \/ RunStart \/ Step \/ RunEnd

SpecTools == Init /\ [][NextTools]_vars

-----------------------------------------------------------------------------
(* One run to its end (aiox/kernel/runtime.py 624-760)                      *)

LivePrograms ==
    ToolPrograms \cup {<<>>, <<IReadCsv, IEmitReport>>, <<IGuardFail, IReadCsv>>,
                       <<IReadCsv, IBuildCli, IZip>>, <<IUnknown, IReadCsv>>}

\* run_bytecode(bytecode, sandbox_root, dry_run, auto_yes) up to VM(...)
LaunchOnce ==
    /\ ~vm.built
    /\ \E prog \in LivePrograms, dry \in BOOLEAN, auto \in BOOLEAN :
          Commit(VmInit(M, prog, {"fs.read", "fs.write"}, dry, auto, now + 1))
    /\ now' = now + 1
    /\ snap' = Fs
    /\ UNCHANGED <<undo, sessVars>>

NextLive == LaunchOnce \/ RunStart \/ Step \/ RunEnd

\* VM.run is one thread of control: once run() is entered its next statement is executed,
\* and each call it makes returns (subprocess.run is given a timeout).
\* LoopFair is WF_vars(Step \/ RunEnd) written out: the loop is enabled exactly in the
\* Running states (LoopEnabled), and every step out of a Running state is one of its steps.
LoopEnabled == Running => vm.pc <= Len(vm.prog)

LoopFair == []<>(~Running) \/ []<><<Running>>_vars

SpecLive ==
    Init /\ [][NextLive]_vars /\ WF_vars(RunStart) /\ LoopFair

-----------------------------------------------------------------------------
(* Properties *)

EvIdx == 1..Len(ev)
RunLog == {i \in 1..Len(txlog) : vm.built /\ txlog[i].run_id = vm.run_id}

\* the capability that covers a syscall-level effect
CapFor(k) == CASE k = "read" -> "fs.read"
               [] k \in {"write", "mkdir"} -> "fs.write"
               [] OTHER -> "proc.spawn"

(* C1: every path a VM filesystem primitive reads, writes, creates, spawns in
   or logs is a proper descendant of the sandbox root; a path equal to the
   root or outside it is refused before any effect or log entry. *)
C1_PathsProperlyUnderRoot ==
    \A i \in EvIdx :
        (ev[i].k \in {"read", "write", "mkdir", "spawn", "log"} /\ ev[i].a # "tool"
           /\ ev[i].p # <<>>)
        => ProperlyUnder(ev[i].p, Sbx)

\* the paths the current run created or overwrote on disk
ChangedPaths == {ev[i].p : i \in {j \in EvIdx : ev[j].k \in {"write", "mkdir"}}}

\* the paths the current run's log entries record as written or created
LoggedPaths ==
    {UndoPathOf(txlog[i]) :
        i \in {j \in RunLog :
                 \/ txlog[j].op \in {"WRITE_FILE", "WRITE_JSON", "ZIP", "WRITE_CHECKSUMS"}
                 \/ txlog[j].op = "MAKE_DIR" /\ txlog[j].created = "true"}}

(* C2: in a non-dry run the paths logged under the run's run_id are exactly
   the paths the run (VM or tool) created or overwrote on disk. *)
C2_LoggedEqualsChanged ==
    (vm.built /\ ~vm.dry) => ChangedPaths = LoggedPaths

(* C3: every file read, file/directory/zip write (the checksum manifest
   included) and subprocess spawn of the VM comes after a successful
   CapPolicy.require of the matching capability in the same run. *)
C3_RequireBeforeEffect ==
    \A i \in EvIdx :
        (ev[i].k \in {"read", "write", "mkdir", "spawn"} /\ ev[i].a # "tool")
        => \E j \in 1..(i - 1) : ev[j].k = "require" /\ ev[j].a = CapFor(ev[i].k)

(* C5: before a tool's execute function is called, every capability of the
   tool's manifest has been checked with CapPolicy.require. *)
C5_ManifestCapsRequiredBeforeExecute ==
    \A i \in EvIdx :
        ev[i].k = "exec"
        => \A cap \in ToolCaps(ev[i].a) :
              \E j \in 1..(i - 1) : ev[j].k = "require" /\ ev[j].a = cap

(* C4: require(cap) returns without prompting iff cap is granted in the
   session, or the PolicyStore holds a grant for (app_id, cap), or cap is
   declared by the bytecode, or the VM auto-grants; otherwise the operator
   is prompted, and unless the answer is y the call raises, with the session
   grants, the PolicyStore and policy.json unchanged, no log entry and no
   effect. *)
C4_RequireDecision ==
    req.some =>
        /\ req.prompted <=> ~(req.in_session \/ req.in_store \/ req.declared \/ req.auto)
        /\ ~req.prompted => req.cap \in vm.granted
        /\ (req.prompted /\ req.answer \in {"y", "Y"})
              => /\ req.cap \in vm.granted
                 /\ <<vm.app_id, req.cap>> \in vm.data.grants
                 /\ <<vm.app_id, req.cap>> \in policyFile.grants
        /\ (req.prompted /\ req.answer \notin {"y", "Y"})
              => /\ vm.err.why = "CapabilityDenied"
                 /\ vm.granted = req.granted0
                 /\ vm.data = req.data0
                 /\ policyFile = req.pfile0
                 /\ Len(txlog) = req.nlog0
                 /\ \A i \in (req.nev0 + 1)..Len(ev) : ev[i].k \in {"prompt", "raise"}

C4_Witness_PromptDenied ==
    req.some /\ req.prompted /\ req.answer = "n" /\ vm.err.why = "CapabilityDenied"

\* the effective limit of a metric: the PolicyStore value if present, else the default
ExpectedLimit(x) ==
    IF x \in DOMAIN vm.data.limits THEN vm.data.limits[x] ELSE QuotaDefaults[x]

(* C6: a charge returns normally iff the metric's running total after adding
   does not exceed the PolicyStore limit (or the default); the first charge
   over the limit raises QuotaExceeded and no later instruction executes. *)
C6_ChargeWithinLimit ==
    vm.built =>
        /\ \A x \in Metrics :
              vm.usage[x] > ExpectedLimit(x)
              => (vm.err.why = "QuotaExceeded" /\ chg.metric = x /\ chg.raised)
        /\ vm.err.why = "QuotaExceeded"
              => (chg.raised /\ vm.usage[chg.metric] > ExpectedLimit(chg.metric))
        /\ \A i \in EvIdx : ev[i].k = "raise" => i = Len(ev)
        /\ vm.err # NoErr
              => Cardinality({i \in EvIdx : ev[i].k = "instr"}) = vm.pc + 1

C6_Witness_QuotaExceeded ==
    vm.built /\ vm.err.why = "QuotaExceeded" /\ chg.raised /\ vm.pc < Len(vm.prog)

\* the write call that was under way when a sequence of events ended, if any
OpenCalls(e) ==
    {c \in 1..Len(e) :
        /\ e[c].k = "call"
        /\ \A j \in (c + 1)..Len(e) : e[j].k \notin {"call", "log"}}

WriteEntries(log, rid) ==
    {i \in 1..Len(log) :
        log[i].run_id = rid /\ log[i].op \in {"WRITE_FILE", "WRITE_JSON"} /\ ~log[i].dry_run}

(* C7: when _fs_write_text or _fs_write_json raises QuotaExceeded, the target
   file is neither created nor modified and no log entry is appended for it,
   while every earlier write of the run stays on disk and in the log. *)
C7_QuotaBeforeWrite ==
    [][ (vm.err = NoErr /\ vm'.err.why = "QuotaExceeded" /\ OpenCalls(ev') # {})
        => LET p == ev'[CHOOSE c \in OpenCalls(ev') : TRUE].p
           IN /\ (p \in DOMAIN files') = (p \in DOMAIN files)
              /\ p \in DOMAIN files => files'[p] = files[p]
              /\ p \notin (dirs' \ dirs)
              /\ \A i \in (Len(txlog) + 1)..Len(txlog') :
                    ~(txlog'[i].op \in {"WRITE_FILE", "WRITE_JSON"} /\ txlog'[i].path = p)
              /\ SubSeq(txlog', 1, Len(txlog)) = txlog
              /\ \A i \in WriteEntries(txlog', vm.run_id) : txlog'[i].path \in DOMAIN files'
      ]_vars

C7_Witness_SecondFileFails ==
    /\ vm.built /\ ~vm.dry /\ vm.err.why = "QuotaExceeded"
    /\ chg.metric = "files_written" /\ chg.limit = 1
    /\ OpenCalls(ev) # {}
    /\ undo.count = 0
    /\ \E i \in WriteEntries(txlog, vm.run_id) :
          txlog[i].created = "true" /\ txlog[i].path \in DOMAIN files

OutFiles(f) == [q \in {x \in DOMAIN f : ProperlyUnder(x, OutP)} |-> f[q]]

(* C8: a non-dry run followed by undo_last_run leaves out/ with exactly the
   files and file contents it had before the run. *)
C8_UndoRestoresOut ==
    (undo.count >= 1 /\ vm.state = "DONE" /\ ~vm.dry)
    => OutFiles(files) = OutFiles(snap.files)

(* C9: after a run that halted part-way, undo_last_run removes exactly the
   files and directories the run created and nothing that existed before. *)
C9_UndoAfterHalt ==
    (undo.count >= 1 /\ vm.err # NoErr /\ ~vm.dry)
    => (DOMAIN files = DOMAIN snap.files /\ dirs = snap.dirs)

(* C10: for a completed run, the paths its log entries record with
   created=true are exactly the paths undo_last_run targets for removal. *)
C10_CreatedEqualsTargets ==
    (vm.built /\ vm.state = "DONE")
    => LET targets == CreatedPaths(txlog, vm.run_id, 1)
       IN {UndoPathOf(txlog[i]) : i \in {j \in RunLog : txlog[j].created = "true"}}
          = {targets[k] : k \in 1..Len(targets)}

(* C11: replaying the package of a successful non-dry run, whatever out/
   held when that run started, returns success with an empty diff list. *)
C11_ReplayOfPackIsClean ==
    (rep.phase \in {"done", "raised"} /\ pkg.of_done /\ pkg.checks.run_id = pkg.of_run)
        => (rep.phase = "done" /\ rep.ok /\ rep.diffs = {})

(* C12: a non-dry run that completes from an emptied out/ leaves every file
   under out/, the checksum manifest included, byte-identical to what the
   previous completed non-dry run of the same bytecode on the same inputs
   left from an empty out/. *)
C12_SuccessiveRunsIdenticalOut ==
    (/\ earlier.some /\ vm.built /\ vm.state = "DONE" /\ ~vm.dry
     /\ vm.run_id # earlier.run_id /\ vm.prog = earlier.prog
     /\ UnderOut(snap) = {} /\ snap.files = earlier.inputs)
        => OutContents(Fs) = earlier.out

(* C13: while replay_aiox runs the packaged bytecode, from the construction
   of its VM until the run has stopped, the ReplayGate is in replay mode and
   its expected calls are those of logs/last_run_model_calls.json. *)
C13_GateInReplayDuringReplay ==
    rep.phase = "running"
        => (/\ gate.built /\ gate.replay_mode
            /\ sidelog.exists /\ gate.expected_calls = sidelog.model_calls)

(* C14: a model call made while the gate is in replay mode never reaches the
   backend; a cached key is answered from the cached outputs and an uncached
   key ends plan_workflow with an error and no plan. *)
C14_ReplayNeverCallsBackend ==
    (plan.some /\ plan.replay)
        => (/\ ~plan.backend
            /\ plan.cached => (~plan.raised /\ plan.result # "none")
            /\ ~plan.cached => (plan.raised /\ plan.result = "none"))

LogSpan(r) == {i \in 1..Len(txlog) : txlog[i].run_id = r}
SpanLo(r) == CHOOSE i \in LogSpan(r) : \A j \in LogSpan(r) : i <= j
SpanHi(r) == CHOOSE i \in LogSpan(r) : \A j \in LogSpan(r) : j <= i

(* C15: once a run has stopped, the tx.jsonl entries carrying its run_id are
   one contiguous span that begins with RUN_START and ends with RUN_END. *)
C15_RunSpanBracketed ==
    \A r \in {txlog[i].run_id : i \in 1..Len(txlog)} :
        (vm.run_id = r => Stopped)
            => (/\ LogSpan(r) = SpanLo(r)..SpanHi(r)
                /\ txlog[SpanLo(r)].op = "RUN_START"
                /\ txlog[SpanHi(r)].op = "RUN_END")

(* C16: when run() has stopped on a failed instruction, the last log entry
   belongs to that run and records the failure (it names the error, or it is
   the ok=false entry of the failed check), and the process state is neither
   RUN nor DONE. *)
C16_FailureLoggedAndMarked ==
    (vm.built /\ vm.err # NoErr)
        => (/\ vm.state \notin {"RUN", "DONE"}
            /\ txlog # <<>>
            /\ txlog[Len(txlog)].run_id = vm.run_id
            /\ txlog[Len(txlog)].note \in {vm.err.cls, vm.err.why, "ok=false"})

(* C17: during and after a dry run, before any undo, every file and directory
   of the sandbox (logs/ and policy.json apart) is as it was when the VM was
   built. *)
C17_DryRunWritesNothing ==
    (vm.built /\ vm.dry /\ undo.count = 0) => (files = snap.files /\ dirs = snap.dirs)

\* the op entries of a run's log: operation and paths, without the hash and the
\* dry_run flag, and without the checksum-manifest entry
RECURSIVE OpEntries(_)
OpEntries(log) ==
    IF log = <<>> THEN <<>>
    ELSE IF Head(log).op = "WRITE_CHECKSUMS" THEN OpEntries(Tail(log))
    ELSE <<[op |-> Head(log).op, path |-> Head(log).path, dest |-> Head(log).dest]>>
           \o OpEntries(Tail(log))

(* C18: a dry run and a real run of the same program from the same sandbox
   state, given the same answers, stop at the same instruction in the same
   way and append the same op entries, the real run's hashes and its
   checksum-manifest entry apart. *)
C18_DryAndRealSameLog ==
    pair.some
        => (/\ pair.dry.pc = pair.real.pc
            /\ pair.dry.err = pair.real.err
            /\ OpEntries(pair.dry.log) = OpEntries(pair.real.log))

\* the slots an instruction reads (runtime.py: self.mem[...] in its branch)
ReadsOf(ins) ==
    CASE ins.op = "CALL_TOOL" -> {ins.ins[k].v : k \in {x \in DOMAIN ins.ins : IsSlotRef(ins.ins[x])}}
      [] ins.op = "ASSERT_GE" -> {ins.s1}
      [] ins.op \in {"EMIT_REPORT", "BUILD_CLI"} -> {ins.s1, ins.s2}
      [] ins.op = "PROFILE" -> {ins.s1}
      [] OTHER -> {}

\* the slots an instruction writes
WritesOf(ins) ==
    CASE ins.op = "CALL_TOOL" -> {ins.outs[k] : k \in DOMAIN ins.outs}
      [] ins.op \in {"READ_CSV", "PROFILE"} -> {ins.out}
      [] OTHER -> {}

MissingRead ==
    /\ Running /\ vm.pc < Len(vm.prog)
    /\ ReadsOf(vm.prog[vm.pc + 1]) \ DOMAIN vm.mem # {}

(* C20: executing an instruction that reads a slot not yet written halts the
   run with the missing-input error (not the guard failure), and the
   instruction has invoked no tool and appended no log entry. *)
C20_MissingInputHaltsFirst ==
    [][MissingRead
         => (/\ vm'.err.why = "MissingInput"
             /\ txlog' = txlog
             /\ \A j \in (Len(ev) + 1)..Len(ev') : ev'[j].k # "exec")]_vars

(* C19: in every program the compiler emits without error, in either mode,
   each slot an instruction reads is an output of a strictly earlier
   instruction. *)
C19_ReadsHaveEarlierWriter ==
    (comp.some /\ comp.ok)
        => \A i \in 1..Len(comp.program) :
              ReadsOf(comp.program[i])
                 \subseteq UNION {WritesOf(comp.program[j]) : j \in 1..(i - 1)}

\* the guard the VM is about to execute, in either form
IsGuard(ins) == ins.op = "ASSERT_GE" \/ (ins.op = "CALL_TOOL" /\ ins.tool = "assert_ge")
GuardSlot(ins) == IF ins.op = "ASSERT_GE" THEN ins.s1 ELSE ins.ins["metrics"].v
GuardField(ins) == IF ins.op = "ASSERT_GE" THEN ins.field ELSE FieldKey(ins.ins["field"].v)
GuardThr(ins) == IF ins.op = "ASSERT_GE" THEN ins.thr ELSE ins.ins["threshold"].v
AtGuard == Running /\ vm.pc < Len(vm.prog) /\ IsGuard(vm.prog[vm.pc + 1])
                   /\ GuardSlot(vm.prog[vm.pc + 1]) \in DOMAIN vm.mem
GuardHolds(ins) ==
    /\ GuardField(ins) \in DOMAIN vm.mem[GuardSlot(ins)].num
    /\ vm.mem[GuardSlot(ins)].num[GuardField(ins)] >= GuardThr(ins)

(* C21: a guard, as ASSERT_GE or as CALL_TOOL assert_ge, lets the run go on
   to the next instruction iff the slot holds a value at the field that is
   >= the threshold; otherwise the run stops at that instruction with
   GuardFailed, and a stopped run executes nothing more. *)
C21_GuardContinuesIffGE ==
    [][/\ AtGuard =>
            IF GuardHolds(vm.prog[vm.pc + 1])
            THEN vm'.err = NoErr /\ vm'.pc = vm.pc + 1
            ELSE vm'.err.why = "GuardFailed" /\ vm'.pc = vm.pc
       /\ (vm.built /\ vm.err # NoErr) => (vm' = vm /\ txlog' = txlog /\ files' = files)]_vars

\* the capabilities the manifests of the tools named by the steps declare
StepToolCaps(steps) == UNION {ToolCaps(steps[i].op) : i \in 1..Len(steps)}

(* C22: every plan that passes schema validation declares a capability set
   that contains the manifest capabilities of every tool its steps name. *)
C22_ValidPlanDeclaresToolCaps ==
    (comp.some /\ comp.err # "ValidationError") => StepToolCaps(comp.plan) \subseteq comp.caps

(* C23: the bytecode file is written only when validation, lowering and the
   opcode check all succeeded, and then it holds the program and the plan's
   capabilities; when compilation fails an error is raised and the file at
   the output path is what it was before (absent stays absent). *)
C23_BytecodeWrittenOnlyOnSuccess ==
    comp.some =>
      /\ comp.ok <=> comp.err = "none"
      /\ ~comp.ok => comp.outfile = comp.before
      /\ comp.ok =>
           /\ SchemaValid([capabilities |-> comp.caps, steps |-> comp.plan], comp.static)
           /\ LowerSteps(comp.plan, comp.use_tools).err = "none"
           /\ \A i \in 1..Len(comp.program) : comp.program[i].op \in Opcodes
           /\ comp.outfile = Bytecode(comp.program, comp.caps)

\* a valid plan failed in lowering while an earlier bytecode file was at the output path
C23_Witness ==
    /\ comp.some /\ comp.err = "ValueError" /\ comp.before.exists
    /\ SchemaValid([capabilities |-> comp.caps, steps |-> comp.plan], comp.static)

(* C24: a capability granted to a program in a VM that has ended is recorded
   in policy.json, and every require() of it by a later VM of the same
   program on the same sandbox succeeds without a prompt, whatever that VM
   declares and with auto-grant off. *)
C24_GrantsPersistAcrossVMs ==
    /\ past \subseteq policyFile.grants
    /\ (req.some /\ <<vm.app_id, req.cap>> \in past) => (req.ok /\ ~req.prompted)

\* a later VM with nothing declared and auto-grant off passed require() on the stored grant
C24_Witness ==
    /\ req.some /\ <<vm.app_id, req.cap>> \in past
    /\ ~req.declared /\ ~req.auto /\ ~req.in_session /\ req.in_store /\ req.ok

\* C25: a lookup returns exactly the outputs last stored for the same model and the same
\* mapping, whatever the order of the keys, and None when nothing was stored for them since
\* the cache was last cleared
C25_GetReturnsLastStored ==
    look.op = "get" =>
        look.result = IF <<look.model, AsMapping(look.inputs)>> \in DOMAIN look.stored
                      THEN <<look.stored[<<look.model, AsMapping(look.inputs)>>]>>
                      ELSE <<>>

\* a lookup that hits with the keys in another order than the store had them
C25_Witness ==
    /\ look.op = "get" /\ look.result # <<>>
    /\ look.inputs # ModelInputs("g1") /\ AsMapping(look.inputs) = AsMapping(ModelInputs("g1"))
    /\ \E i \in 1..Len(cache.call_log) :
          /\ ~cache.call_log[i].cache_hit
          /\ cache.call_log[i].inputs = ModelInputs("g1")
          /\ cache.call_log[i].model = look.model

\* C26: an entry of the cache, once written, is changed by no operation but clear_cache
C26_EntriesImmutable ==
    [][look'.op # "clear" =>
         \A k \in DOMAIN cache.entries :
            k \in DOMAIN cache'.entries /\ cache'.entries[k] = cache.entries[k]]_vars

\* C29: check_model_call in normal mode allows the call without a cached result and leaves
\* the cache and the gate alone; in replay mode it allows the call, returns the cached
\* outputs and appends the call to actual_calls exactly when the cache has an entry for the
\* key, and otherwise refuses it without a result
C29_CheckModelCall ==
    [][look'.op = "check" =>
         IF ~gate.replay_mode
         THEN /\ look'.allowed /\ look'.result = <<>>
              /\ cache' = cache /\ gate' = gate
         ELSE IF CacheKey(look'.model, look'.inputs) \in DOMAIN cache.entries
         THEN /\ look'.allowed
              /\ look'.result = <<cache.entries[CacheKey(look'.model, look'.inputs)]>>
              /\ gate'.actual_calls =
                   Append(gate.actual_calls,
                          CallRecord(look'.model, look'.inputs,
                                     cache.entries[CacheKey(look'.model, look'.inputs)], TRUE))
              /\ cache'.entries = cache.entries
         ELSE /\ ~look'.allowed /\ look'.result = <<>>
              /\ gate' = gate /\ cache' = cache]_vars

\* a replay-mode call answered from the cache
C29_Witness ==
    /\ look.op = "check" /\ gate.replay_mode
    /\ look.allowed /\ look.result # <<>> /\ gate.actual_calls # <<>>

\* the manifest paths that are absent from the sandbox, and those whose file hashes otherwise
MissingNow == {k \in DOMAIN pkg.checks.checksums : k \notin DOMAIN files}

HashMismatch ==
    {k \in DOMAIN pkg.checks.checksums \cap DOMAIN files :
        Sha256(files[k]) # pkg.checks.checksums[k]}

\* C27: when replay_aiox returns, it returns ok exactly when every path of the packaged
\* manifest exists in the sandbox with the recorded SHA-256; the diff list has one entry for
\* each manifest path that is absent (missing-now) or differs (hash-mismatch) and no other
\* entry; the replay command exits 0 when the list is empty and 2 otherwise
C27_ReplayDiffsExact ==
    [][(rep.phase = "running" /\ rep'.phase = "done") =>
         /\ rep'.ok <=> (\A k \in DOMAIN pkg.checks.checksums :
                            k \in DOMAIN files /\ Sha256(files[k]) = pkg.checks.checksums[k])
         /\ rep'.diffs = {<<k, "missing-now">> : k \in MissingNow}
                            \cup {<<k, "hash-mismatch">> : k \in HashMismatch}
         /\ rep'.code = IF rep'.diffs = {} THEN 0 ELSE 2]_vars

\* a replay that returned with a missing file, a changed file and a file outside the manifest
C27_Witness ==
    /\ rep.phase = "done" /\ rep.code = 2
    /\ \E d \in rep.diffs : d[2] = "missing-now"
    /\ \E d \in rep.diffs : d[2] = "hash-mismatch"
    /\ \E q \in UnderOut(Fs) : q \notin DOMAIN pkg.checks.checksums

\* the files the last non-dry run created
CreatedByReal == DOMAIN real.after.files \ DOMAIN real.before.files

\* C28: when dry runs have followed the last non-dry run, the undo command still removes
\* the files which that non-dry run created
C28_UndoRevertsLastRealRun ==
    [][(undo'.count = undo.count + 1 /\ real.some /\ real.ended /\ vm.dry) =>
         \A q \in CreatedByReal : q \notin DOMAIN files']_vars

\* C30: the legacy-mode program and the tools-mode program of one plan, run from the same
\* sandbox state, stop at the same step in the same way and leave the same slot contents,
\* the same files and directories and the same log entries
C30_ModesAgree ==
    modes.some
        => (/\ modes.legacy.pc = modes.tools.pc
            /\ modes.legacy.err = modes.tools.err
            /\ modes.legacy.mem = modes.tools.mem
            /\ modes.legacy.files = modes.tools.files
            /\ modes.legacy.dirs = modes.tools.dirs
            /\ OpEntries(modes.legacy.log) = OpEntries(modes.tools.log))

\* the CALL_TOOL instruction a run is about to execute
AtCallTool == Running /\ vm.pc < Len(vm.prog) /\ vm.prog[vm.pc + 1].op = "CALL_TOOL"
NextIns == vm.prog[vm.pc + 1]

\* the input ports whose plan value is a literal: the path of load_csv, the output path of
\* emit_report, the field and the threshold of a guard
LiteralPorts(tool) ==
    CASE tool = "read_csv" -> {"path"}
      [] tool = "emit_report" -> {"output_path"}
      [] tool = "assert_ge" -> {"field", "threshold"}
      [] OTHER -> {}

\* C31: at every CALL_TOOL instruction of a compiled program the ports that carry a plan
\* literal are not looked up in the slot map and reach the tool as they are, and the ports
\* that carry a "$name" reference are slot references
C31_LiteralsPassThrough ==
    (AtCallTool /\ vm.prog \in {ToolsProgram(steps) : steps \in ToolPlans}) =>
        \A k \in DOMAIN NextIns.ins :
            IF k \in LiteralPorts(NextIns.tool)
            THEN /\ ~IsSlotRef(NextIns.ins[k])
                 /\ k \notin MissingSlots(M, NextIns.ins)
            ELSE IsSlotRef(NextIns.ins[k])

\* what call_tool returns for the instruction at hand
ToolRet == CallTool(M, NextIns.tool, ResolveInputs(M, NextIns.ins), "y", 0, 0)

ToolReturns == AtCallTool /\ MissingSlots(M, NextIns.ins) = {} /\ ~Failed(ToolRet)

\* C32: when the tool of a CALL_TOOL returns, each slot of the outputs map holds the
\* result's value for its port and no other slot changes; when the result lacks a port of
\* the outputs map the run stops at that instruction with an error
C32_DeclaredOutputsStored ==
    [][ToolReturns =>
          IF DOMAIN NextIns.outs \subseteq DOMAIN ToolRet.ret
          THEN /\ \A k \in DOMAIN NextIns.outs : vm'.mem[NextIns.outs[k]] = ToolRet.ret[k]
               /\ \A q \in DOMAIN vm.mem \ {NextIns.outs[k] : k \in DOMAIN NextIns.outs} :
                     q \in DOMAIN vm'.mem /\ vm'.mem[q] = vm.mem[q]
               /\ DOMAIN vm'.mem =
                     DOMAIN vm.mem \cup {NextIns.outs[k] : k \in DOMAIN NextIns.outs}
          ELSE vm'.err # NoErr /\ vm'.pc = vm.pc]_vars

ManifestPath == Append(OutP, ChecksumsName)

\* the file at ManifestPath, <<>> when there is none
ManifestOf(f) == IF ManifestPath \in DOMAIN f THEN <<f[ManifestPath]>> ELSE <<>>

\* C33: when a successful non-dry run has returned, checksums.json lists exactly the files
\* under out/ other than itself, each with the SHA-256 of the file as it then is on disk;
\* a dry run or a failed run leaves the manifest as it was
C33_ManifestMatchesOut ==
    (Stopped /\ undo.count = 0) =>
        IF vm.state = "DONE" /\ ~vm.dry
        THEN /\ ManifestPath \in DOMAIN files
             /\ DOMAIN files[ManifestPath].v.checksums = UnderOut(Fs) \ {ManifestPath}
             /\ \A q \in DOMAIN files[ManifestPath].v.checksums :
                   q \in DOMAIN files
                     /\ files[ManifestPath].v.checksums[q] = Sha256(files[q])
        ELSE ManifestOf(files) = ManifestOf(snap.files)

\* the instructions the loop of run() has begun, in the order it began them
Begun == SelectSeq(ev, LAMBDA e : e.k = "instr")

\* the instructions begun are the first ones of the program, in index order, each once:
\* all before pc, and the one at pc when the run failed there
BegunInOrder ==
    vm.built =>
        /\ Len(Begun) = IF vm.state = "RUN" /\ vm.err # NoErr THEN vm.pc + 1 ELSE vm.pc
        /\ Len(Begun) <= Len(vm.prog)
        /\ \A i \in 1..Len(Begun) : Begun[i].a = vm.prog[i].op

DoneAfterLast ==
    (vm.built /\ vm.state = "DONE") =>
        /\ vm.pc = Len(vm.prog)
        /\ \E i \in RunLog : txlog[i].op = "RUN_END"

\* C34: run() executes the instructions of the program in index order, each at most once,
\* one step at a time; a run that has failed executes and logs nothing more; state DONE is
\* reached only after the last instruction, with RUN_END logged; and every run ends, in
\* DONE or at its first failing instruction
C34_RunInOrderAndTerminates ==
    /\ [](BegunInOrder /\ DoneAfterLast)
    /\ [][vm.built => vm'.pc \in {vm.pc, vm.pc + 1}]_vars
    /\ [][(vm.built /\ vm.err # NoErr) => (vm' = vm /\ txlog' = txlog /\ ev' = ev)]_vars
    /\ (vm.built ~> Stopped)

\* a run of two instructions that failed at the first
C34_Witness ==
    /\ vm.built /\ vm.err # NoErr /\ vm.state = "RUN"
    /\ Len(vm.prog) = 2 /\ vm.pc = 0 /\ Len(Begun) = 1

\* the lines the run in progress has added to logs/model_calls.jsonl
CallsOfRun == SubSeq(cache.call_log, look.from + 1, Len(cache.call_log))

\* the (model, inputs) pairs of a list of calls, in order
Asked(calls) == [i \in 1..Len(calls) |-> <<calls[i].model, calls[i].inputs>>]

\* C35: record_successful_run in Normal mode leaves in the side log exactly the backend
\* calls of the run that just finished, in call order (after a run without backend calls:
\* the side log as it was, or an empty list), and in Replay mode leaves the side log as it
\* was; load_run_for_replay then puts the gate in Replay mode expecting the side
\* log's list; and when the expected calls have been replayed in order
\* verify_replay_completeness succeeds
C35_RecordThenReplay ==
    /\ [][(look'.op = "record" /\ gate.built) =>
             IF gate.replay_mode THEN sidelog' = sidelog
             ELSE IF RecordedCalls(CallsOfRun) = <<>>
             THEN sidelog' = sidelog \/ sidelog'.model_calls = <<>>
             ELSE sidelog' = [exists |-> TRUE, model_calls |-> RecordedCalls(CallsOfRun)]]_vars
    /\ [][(look'.op = "load" /\ gate.built /\ sidelog.exists) =>
             (gate'.replay_mode /\ gate'.expected_calls = sidelog.model_calls)]_vars
    /\ []((gate.replay_mode /\ Asked(gate.actual_calls) = Asked(gate.expected_calls))
              => VerifyReplayCompleteness(gate))

\* C36 as stated: no step of any instance removes a grant from policy.json
C36_GrantsNeverShrink == [][policyFile.grants \subseteq policyFile'.grants]_vars

\* C36, amended: a step of an instance during whose life no other instance has been alive
\* removes no grant from policy.json (steps that leave peer as it was are the first
\* instance's, the others are the second's or a construction)
C36_GrantsKeptWithoutOverlap ==
    [][/\ (peer' = peer /\ "vm" \notin peer.overlapped)
            => policyFile.grants \subseteq policyFile'.grants
       /\ (peer' # peer /\ "peer" \notin peer'.overlapped)
            => policyFile.grants \subseteq policyFile'.grants]_vars

\* an instance that began after the other had ended has granted a capability, and
\* policy.json holds the grants of both
C36_Witness ==
    /\ peer.ended /\ peer.overlapped = {} /\ vm.built /\ vm.app_id # peer.vm.app_id
    /\ \E c \in Caps : <<peer.vm.app_id, c>> \in policyFile.grants
    /\ req.some /\ req.prompted /\ req.ok /\ <<vm.app_id, req.cap>> \in policyFile.grants

IsPrefix(a, b) == Len(a) <= Len(b) /\ SubSeq(b, 1, Len(a)) = a

\* C37: every step of a run, a dry run, a replay, a pack or an undo leaves the lines that
\* tx.jsonl held in place: the log before the step is a prefix of the log after it
C37_TxLogAppendOnly == [][IsPrefix(txlog, txlog')]_vars

Rising(rows) == \A i, j \in 1..Len(rows) : i < j => rows[i].at < rows[j].at

Range(rows) == {rows[i] : i \in 1..Len(rows)}

\* the side of row i when a table of n rows is split with this ratio and seed
SideOf(i, n, tenths, seed) ==
    IF \E r \in Range(SplitRows([k \in 1..n |-> [at |-> k - 1, cells |-> "x"]], tenths, seed).train) :
          r.at = i
    THEN "train" ELSE "val"

\* C38: SPLIT puts every row of the table in exactly one of train and val, in the order
\* of the table; the side of a row is the same in every table that has the row, given
\* ratio and seed; ratio 0.0 puts all rows in val; ratio 1.0 puts all rows in train,
\* but for the one row that val must hold when the table has two rows or more
C38_SplitPartitions ==
    split.some =>
        /\ Rising(split.train) /\ Rising(split.val)
        /\ Range(split.train) \cup Range(split.val) = Range(split.rows)
        /\ Len(split.train) + Len(split.val) = Len(split.rows)
        /\ \A i \in 0..(Len(split.rows) - 1), n \in 1..MaxRows :
              i < n => SideOf(i, n, split.tenths, split.seed)
                         = SideOf(i, Len(split.rows), split.tenths, split.seed)
        /\ split.tenths = 0 => split.train = <<>>
        /\ split.tenths = 10 => Len(split.val) = IF Len(split.rows) >= 2 THEN 1 ELSE 0
        /\ Len(split.rows) >= 2 => Len(split.val) >= 1

\* C39: a require(cap) in a VM without auto-grant, for a capability its bytecode does not
\* declare and that neither this session nor policy.json holds for the VM's own app_id,
\* prompts the operator, whatever policy.json holds for other app_ids
C39_OtherAppsGrantsDoNotCount ==
    (req.some /\ ~req.auto /\ ~req.declared /\ ~req.in_session
       /\ <<vm.app_id, req.cap>> \notin req.data0.grants)
        => req.prompted

\* the operator was prompted for a capability that policy.json held for another program
C39_Witness ==
    /\ req.some /\ req.prompted /\ ~req.auto /\ ~req.declared
    /\ \E g \in req.data0.grants : g[1] # vm.app_id /\ g[2] = req.cap

\* C40: an undo leaves tx.jsonl as it was; an undo that follows another, with no run in
\* between, collects the same paths of the same run, removes nothing and returns 0
C40_SecondUndoRemovesNothing ==
    [][(undo'.count = undo.count + 1) =>
         /\ txlog' = txlog
         /\ undo.count >= 1 =>
               /\ undo'.targets = undo.targets
               /\ undo'.gone = <<>>
               /\ files' = files /\ dirs' = dirs]_vars

\* two undos after a run that completed, not dry, and had created a path
C40_Witness ==
    /\ undo.count = 2 /\ vm.state = "DONE" /\ ~vm.dry
    /\ \E i \in 1..Len(undo.targets) : txlog[1].run_id = vm.run_id /\ ~Exists(M, undo.targets[i])
    /\ \E i \in 1..Len(txlog) : txlog[i].created = "true"

=============================================================================
